---------------------------- MODULE Spec2Model ----------------------------
(***************************************************************************)
(* A model of rendercv.ai: the client factory (get_ai_client), the         *)
(* provider configuration (AIConfig.get_model), the provider clients'      *)
(* generate and generate_json, the four operations of AIResumeService,     *)
(* the text extractor (extract_resume_text), save_resume_yaml and          *)
(* load_resume_yaml, read_job_description, and the four commands of the    *)
(* command line (ai_parse, ai_polish, ai_tailor, ai_generate).             *)
(*                                                                         *)
(* Python values are modelled as follows.  None is the string None below;  *)
(* credentials, provider names, model names and environment variable names *)
(* are strings; free text (resume text, job description, user info) and    *)
(* JSON string values are sequences of characters, so that strip() and the *)
(* substring test of the `in` operator are computed and not assumed; JSON  *)
(* values are records tagged by their type.                                *)
(***************************************************************************)
EXTENDS Integers, Sequences, FiniteSets, TLC

VARIABLES
    env,        \* os.environ restricted to the credential variables
    sdk,        \* which optional SDK packages can be imported
    pc,         \* position of the caller: "start" before the call, "done" after
    call,       \* the call made (operation name and arguments)
    outcome,    \* what the call returned or raised
    client,     \* the AIClient held by the service (AIResumeService.client)
    requests,   \* the requests issued to the remote API, in order
    files,      \* the file system: what each path holds
    doc         \* the caller's resume_data dict, which save_resume_yaml mutates

vars == <<env, sdk, pc, call, outcome, client, requests, files, doc>>

-----------------------------------------------------------------------------
(* Python's None, and the truthiness test `if x:` on a str | None value.   *)

None == "<None>"

Truthy(x) == x # None /\ x # ""

-----------------------------------------------------------------------------
(* The environment.                                                        *)

EnvNames == {"OPENAI_API_KEY", "ANTHROPIC_API_KEY", "UNKNOWN_API_KEY"}

\* A variable is unset (None), set to the empty string, or set to a key that
\* is particular to it.
EnvValues(name) == {None, "", "env-" \o name}

Environments == {e \in [EnvNames -> UNION {EnvValues(n) : n \in EnvNames}] :
                    \A n \in EnvNames : e[n] \in EnvValues(n)}

\* os.environ.get(name)
EnvironGet(e, name) == IF name \in DOMAIN e THEN e[name] ELSE None

Sdks == [{"openai", "anthropic"} -> BOOLEAN]

-----------------------------------------------------------------------------
(* The arguments of get_ai_client.                                         *)

Providers == {"openai", "anthropic", "unknown", "OpenAI"}

ApiKeys == {"", "arg-key"}

Models == {"", "gpt-3.5-turbo"}

\* str.upper() on the provider names
Upper(s) ==
    CASE s = "openai"    -> "OPENAI"
      [] s = "OpenAI"    -> "OPENAI"
      [] s = "anthropic" -> "ANTHROPIC"
      [] s = "unknown"   -> "UNKNOWN"
      [] OTHER           -> s

-----------------------------------------------------------------------------
(* Outcomes of a call: a returned value or a raised exception.             *)

NoValue == [t |-> "novalue"]

Return(v, reads) ==
    [kind |-> "return", value |-> v, error |-> None, message |-> None,
     cause |-> None, reads |-> reads]

\* `raise error(message) from cause`
RaiseFrom(error, message, cause, reads) ==
    [kind |-> "raise", value |-> NoValue, error |-> error, message |-> message,
     cause |-> cause, reads |-> reads]

Raise(error, message, reads) == RaiseFrom(error, message, None, reads)

NoOutcome ==
    [kind |-> "none", value |-> NoValue, error |-> None, message |-> None,
     cause |-> None, reads |-> <<>>]

\* No file system and no document: the state of the calls that touch neither.
NoFiles == <<>>

NoDoc == [t |-> "nodoc"]

NoCall == [op |-> "none"]

NoClient == [t |-> "noclient"]

-----------------------------------------------------------------------------
(* AIConfig and the two client classes.                                    *)

AIConfig(provider, api_key, model) ==
    [provider |-> provider, api_key |-> api_key, model |-> model]

MsgUnknownProviderModel(provider) == "Unknown AI provider: " \o provider

\* A faulty get_model: the provider's default takes precedence over the
\* pinned model.
get_modelDefaultFirst(config) ==
    IF config.provider = "openai" THEN Return("gpt-4o", <<>>)
    ELSE IF config.provider = "anthropic"
         THEN Return("claude-sonnet-4-20250514", <<>>)
    ELSE IF Truthy(config.model) THEN Return(config.model, <<>>)
    ELSE Raise("RenderCVUserError", MsgUnknownProviderModel(config.provider),
               <<>>)

\* AIConfig.get_model
get_model(config) ==
    IF Truthy(config.model) THEN Return(config.model, <<>>)
    ELSE IF config.provider = "openai" THEN Return("gpt-4o", <<>>)
    ELSE IF config.provider = "anthropic"
         THEN Return("claude-sonnet-4-20250514", <<>>)
    ELSE Raise("RenderCVUserError", MsgUnknownProviderModel(config.provider),
               <<>>)

MsgOpenAIMissing ==
    "OpenAI package is not installed. Install it with: pip install openai"

MsgAnthropicMissing ==
    "Anthropic package is not installed. Install it with: pip install anthropic"

Client(cls, config) == [t |-> "client", cls |-> cls, config |-> config]

\* OpenAIClient.__init__
OpenAIClient(config, installed, reads) ==
    IF ~installed["openai"]
    THEN Raise("RenderCVUserError", MsgOpenAIMissing, reads)
    ELSE Return(Client("OpenAIClient", config), reads)

\* AnthropicClient.__init__
AnthropicClient(config, installed, reads) ==
    IF ~installed["anthropic"]
    THEN Raise("RenderCVUserError", MsgAnthropicMissing, reads)
    ELSE Return(Client("AnthropicClient", config), reads)

-----------------------------------------------------------------------------
(* get_ai_client.                                                          *)

MsgKeyWithoutProvider ==
    "When providing an API key, you must also specify the provider"
    \o " (--provider openai or --provider anthropic)"

MsgNoApiKey ==
    "No API key found. Please set OPENAI_API_KEY or ANTHROPIC_API_KEY"
    \o " environment variable, or use --api-key with --provider option."

MsgApiKeyNotFound(env_var) ==
    "API key not found. Please set " \o env_var \o " environment variable"
    \o " or use --api-key option."

MsgUnknownProvider(provider) ==
    "Unknown AI provider: " \o provider
    \o ". Supported providers: openai, anthropic"

\* A faulty EnvVarOf: the provider name is not upper-cased.
EnvVarOfNoUpper(provider) == provider \o "_API_KEY"

\* f"{provider.upper()}_API_KEY"
EnvVarOf(provider) == Upper(provider) \o "_API_KEY"

\* A faulty AutoDetect: ANTHROPIC_API_KEY is probed before OPENAI_API_KEY.
AutoDetectAnthropicFirst(e) ==
    IF Truthy(EnvironGet(e, "ANTHROPIC_API_KEY"))
    THEN [found |-> TRUE, provider |-> "anthropic",
          api_key |-> e["ANTHROPIC_API_KEY"],
          reads |-> <<"ANTHROPIC_API_KEY", "ANTHROPIC_API_KEY">>]
    ELSE IF Truthy(EnvironGet(e, "OPENAI_API_KEY"))
    THEN [found |-> TRUE, provider |-> "openai",
          api_key |-> e["OPENAI_API_KEY"],
          reads |-> <<"ANTHROPIC_API_KEY", "OPENAI_API_KEY",
                      "OPENAI_API_KEY">>]
    ELSE [found |-> FALSE, provider |-> None, api_key |-> None,
          reads |-> <<"ANTHROPIC_API_KEY", "OPENAI_API_KEY">>]

\* The probe of the environment when no provider is given (lines 243-253):
\* the provider and key it settles on, and the variables it read.
AutoDetect(e) ==
    IF Truthy(EnvironGet(e, "OPENAI_API_KEY"))
    THEN [found |-> TRUE, provider |-> "openai",
          api_key |-> e["OPENAI_API_KEY"],
          reads |-> <<"OPENAI_API_KEY", "OPENAI_API_KEY">>]
    ELSE IF Truthy(EnvironGet(e, "ANTHROPIC_API_KEY"))
    THEN [found |-> TRUE, provider |-> "anthropic",
          api_key |-> e["ANTHROPIC_API_KEY"],
          reads |-> <<"OPENAI_API_KEY", "ANTHROPIC_API_KEY",
                      "ANTHROPIC_API_KEY">>]
    ELSE [found |-> FALSE, provider |-> None, api_key |-> None,
          reads |-> <<"OPENAI_API_KEY", "ANTHROPIC_API_KEY">>]

\* A faulty KeyGiven: the key-without-provider check is left out.
KeyGivenUnchecked(api_key) == FALSE

\* The guard of the key-without-provider error (line 237).
KeyGiven(api_key) == Truthy(api_key)

\* A faulty KeyMissing: an empty key counts as missing (`if not api_key`).
KeyMissingIfFalsy(api_key) == ~Truthy(api_key)

\* The guard of the lookup of the provider's own variable (line 256).
KeyMissing(api_key) == api_key = None

\* A faulty Dispatch: any provider other than anthropic gets the OpenAI
\* client.
DispatchDefaultsToOpenAI(provider, api_key, model, installed, reads) ==
    LET config == AIConfig(provider, api_key, model) IN
    IF provider = "anthropic" THEN AnthropicClient(config, installed, reads)
    ELSE OpenAIClient(config, installed, reads)

\* Lines 266-273: build the configuration and dispatch on the provider.
Dispatch(provider, api_key, model, installed, reads) ==
    LET config == AIConfig(provider, api_key, model) IN
    IF provider = "openai" THEN OpenAIClient(config, installed, reads)
    ELSE IF provider = "anthropic" THEN AnthropicClient(config, installed, reads)
    ELSE Raise("RenderCVUserError", MsgUnknownProvider(provider), reads)

\* Lines 255-273: the provider is known; resolve the key if it is missing.
WithProvider(provider, api_key, model, e, installed, reads) ==
    IF KeyMissing(api_key)
    THEN LET env_var == EnvVarOf(provider)
             key     == EnvironGet(e, env_var)
             reads2  == Append(reads, env_var)
         IN  IF ~Truthy(key)
             THEN Raise("RenderCVUserError", MsgApiKeyNotFound(env_var), reads2)
             ELSE Dispatch(provider, key, model, installed, reads2)
    ELSE Dispatch(provider, api_key, model, installed, reads)

get_ai_client(provider, api_key, model, e, installed) ==
    IF provider = None
    THEN IF KeyGiven(api_key)
         THEN Raise("RenderCVUserError", MsgKeyWithoutProvider, <<>>)
         ELSE LET d == AutoDetect(e) IN
              IF d.found
              THEN WithProvider(d.provider, d.api_key, model, e, installed,
                                d.reads)
              ELSE Raise("RenderCVUserError", MsgNoApiKey, d.reads)
    ELSE WithProvider(provider, api_key, model, e, installed, <<>>)

-----------------------------------------------------------------------------
(* The factory as a state machine: a caller in some environment makes one  *)
(* call of get_ai_client or of AIConfig.get_model.                         *)

InitFactory ==
    /\ env \in Environments
    /\ sdk \in Sdks
    /\ pc = "start"
    /\ call = NoCall
    /\ outcome = NoOutcome
    /\ client = NoClient
    /\ requests = <<>>
    /\ files = NoFiles
    /\ doc = NoDoc

CallGetAIClient ==
    /\ pc = "start"
    /\ \E provider \in Providers \cup {None},
          api_key \in ApiKeys \cup {None},
          model \in Models \cup {None} :
          /\ LET r == get_ai_client(provider, api_key, model, env, sdk) IN
             /\ outcome' = r
             /\ client' = IF r.kind = "return" THEN r.value ELSE NoClient
          /\ call' = [op |-> "get_ai_client", provider |-> provider,
                      api_key |-> api_key, model |-> model]
    /\ pc' = "done"
    /\ UNCHANGED <<env, sdk, requests, files, doc>>

CallGetModel ==
    /\ pc = "start"
    /\ \E provider \in Providers, api_key \in ApiKeys,
          model \in Models \cup {None} :
          /\ outcome' = get_model(AIConfig(provider, api_key, model))
          /\ call' = [op |-> "get_model", provider |-> provider,
                      api_key |-> api_key, model |-> model]
    /\ pc' = "done"
    /\ UNCHANGED <<env, sdk, client, requests, files, doc>>

NextFactory ==
    \/ CallGetAIClient
    \/ CallGetModel

SpecFactory == InitFactory /\ [][NextFactory]_vars

-----------------------------------------------------------------------------
(* Text: sequences of characters, with str.strip() and the substring test. *)

MaxTextLen == 2

TextChars == {" ", "\n", "x"}

IsSpace(c) == c \in {" ", "\n"}

Texts == UNION {[1..n -> TextChars] : n \in 0..MaxTextLen}

RECURSIVE LStrip(_)
LStrip(s) ==
    IF s # <<>> /\ IsSpace(Head(s)) THEN LStrip(Tail(s)) ELSE s

RECURSIVE RStrip(_)
RStrip(s) ==
    IF s # <<>> /\ IsSpace(s[Len(s)])
    THEN RStrip(SubSeq(s, 1, Len(s) - 1))
    ELSE s

\* str.strip()
Strip(s) == RStrip(LStrip(s))

\* `sub in s` for two strings
IsSubstring(sub, s) ==
    \E i \in 1..(Len(s) - Len(sub) + 1) : SubSeq(s, i, i + Len(sub) - 1) = sub

-----------------------------------------------------------------------------
(* JSON values, as json.loads returns them.                                *)

Keys == {"cv", "resume", "analysis", "name"}

\* The characters of the two keys the service tests for.
KeyChars(key) ==
    CASE key = "cv"     -> <<"c", "v">>
      [] key = "resume" -> <<"r", "e", "s", "u", "m", "e">>

Absent == [t |-> "absent"]

JNull == [t |-> "null"]

JNum == [t |-> "num"]

JStr(s) == [t |-> "str", s |-> s]

JList(items) == [t |-> "list", items |-> items]

\* A dict: every key of Keys maps to its value, or to Absent.
Obj(f) == [t |-> "obj",
           m |-> [k \in Keys |-> IF k \in DOMAIN f THEN f[k] ELSE Absent]]

\* Whether `key in v` is defined for v (a dict, a list or a str); on a
\* number or None it raises TypeError.
SupportsIn(v) == v.t \in {"obj", "list", "str"}

\* `key in v`, for v that supports it: a key of a dict, an element of a
\* list, a substring of a str.
In(key, v) ==
    CASE v.t = "obj"  -> v.m[key] # Absent
      [] v.t = "list" -> \E i \in DOMAIN v.items : v.items[i] = JStr(KeyChars(key))
      [] v.t = "str"  -> IsSubstring(KeyChars(key), v.s)

-----------------------------------------------------------------------------
(* The replies of the remote model.                                        *)

MaxWrap == 2

Analysis == JStr(<<"n">>)

\* Values found under 'cv'.
CvValues ==
    {Obj("name" :> JStr(<<"A">>)), Obj("name" :> JStr(<<"B">>)), JNull,
     JStr(<<"c", "v">>)}

OtherCv == Obj("name" :> JStr(<<"Y">>))

\* Replies without a 'resume' wrapper: documents, documents with an analysis
\* section, objects without 'cv', and values that are not objects.
BaseReplies ==
    {Obj("cv" :> x) : x \in CvValues}
    \cup {Obj("cv" :> x @@ "analysis" :> Analysis) : x \in CvValues}
    \cup {Obj("analysis" :> Analysis), Obj(<<>>)}
    \cup {Obj("analysis" :> Obj("cv" :> OtherCv)),
          Obj("resume" :> JNull @@ "analysis" :> Obj("cv" :> OtherCv))}
    \cup {JStr(<<"c", "v">>), JStr(<<"a", "c", "v">>), JStr(<<"x">>),
          JStr(KeyChars("resume")),
          JList(<<JStr(<<"c", "v">>)>>), JList(<<JStr(KeyChars("resume"))>>),
          JList(<<>>), JNum, JNull}

\* v under a 'resume' key: alone, beside an analysis section, beside a 'cv'.
Wrappers(v) ==
    {Obj("resume" :> v),
     Obj("resume" :> v @@ "analysis" :> Analysis),
     Obj("resume" :> v @@ "cv" :> OtherCv)}

RECURSIVE RepliesUpTo(_)
RepliesUpTo(n) ==
    IF n = 0 THEN BaseReplies
    ELSE LET inner == RepliesUpTo(n - 1) IN
         inner \cup UNION {Wrappers(v) : v \in inner}

Replies == RepliesUpTo(MaxWrap)

\* What the remote call yields: content that is the JSON text of a value,
\* content that is not JSON, no content at all, or an exception of the SDK.
Responses ==
    {[kind |-> "json", value |-> v] : v \in Replies}
    \cup {[kind |-> k, value |-> JNull] : k \in {"malformed", "empty", "exception"}}

\* The responses a client can get.  OpenAIClient.generate_json asks for
\* response_format json_object, under which JSON content is an object;
\* AnthropicClient.generate_json only asks for JSON in the prompt, so the
\* content can be any JSON value.
ResponsesOf(c) ==
    IF c.cls = "OpenAIClient"
    THEN {r \in Responses : r.kind = "json" => r.value.t = "obj"}
    ELSE Responses

-----------------------------------------------------------------------------
(* generate_json of the two clients: the request it issues and what it     *)
(* makes of the response.                                                  *)

\* The request a service operation issues through generate_json; the
\* temperature is in tenths.
Request(cls, system_prompt, temperature) ==
    [cls |-> cls, system_prompt |-> system_prompt, temperature |-> temperature]

\* OpenAIClient.generate_json: `content or "{}"`, then json.loads.
OpenAIGenerateJson(resp) ==
    CASE resp.kind = "exception" -> Raise("APIError", None, <<>>)
      [] resp.kind = "empty"     -> Return(Obj(<<>>), <<>>)
      [] resp.kind = "malformed" -> Raise("JSONDecodeError", None, <<>>)
      [] resp.kind = "json"      -> Return(resp.value, <<>>)

\* AnthropicClient.generate_json: response.content[0].text, then json.loads.
AnthropicGenerateJson(resp) ==
    CASE resp.kind = "exception" -> Raise("APIError", None, <<>>)
      [] resp.kind = "empty"     -> Raise("IndexError", None, <<>>)
      [] resp.kind = "malformed" -> Raise("JSONDecodeError", None, <<>>)
      [] resp.kind = "json"      -> Return(resp.value, <<>>)

generate_json(c, resp) ==
    IF c.cls = "OpenAIClient" THEN OpenAIGenerateJson(resp)
    ELSE AnthropicGenerateJson(resp)

-----------------------------------------------------------------------------
(* The content of a provider reply as text, and what generate and          *)
(* generate_json make of it.  Content is a sequence of characters; the     *)
(* JSON texts are a fixed table, so that the slicing of the fence markers  *)
(* and json.loads are computed on the characters.                          *)

\* Python's s.startswith(prefix) and s.endswith(suffix).
StartsWith(s, prefix) ==
    Len(s) >= Len(prefix) /\ SubSeq(s, 1, Len(prefix)) = prefix

EndsWith(s, suffix) ==
    /\ Len(s) >= Len(suffix)
    /\ SubSeq(s, Len(s) - Len(suffix) + 1, Len(s)) = suffix

\* Python's s[n:] and s[:-n].
DropFirst(s, n) == SubSeq(s, n + 1, Len(s))

DropLast(s, n) == SubSeq(s, 1, Len(s) - n)

\* The character U+0060 (a TLA+ string cannot hold it) and the two markers.
Backtick == "backtick"

Fence == <<Backtick, Backtick, Backtick>>

JsonFence == Fence \o <<"j", "s", "o", "n">>

\* JSON texts and the values json.loads gives for them.
EmptyObjectText == <<"{", "}">>

CvObjectText == <<"{", "c", "}">>

JsonTexts == {EmptyObjectText, CvObjectText, <<"[", "]">>, <<"1">>}

\* Text that is not JSON: a truncated object and plain prose.
TruncatedText == <<"{", "c">>

NonJsonTexts == {TruncatedText, <<"x">>}

Bodies == JsonTexts \cup NonJsonTexts

\* json.loads: whitespace around the JSON text is accepted; anything that
\* is not a JSON text, the empty text included, raises JSONDecodeError.
JsonLoads(content) ==
    LET text == Strip(content) IN
    CASE text = EmptyObjectText -> Return(Obj(<<>>), <<>>)
      [] text = CvObjectText    -> Return(Obj("cv" :> JNum), <<>>)
      [] text = <<"[", "]">>    -> Return(JList(<<>>), <<>>)
      [] text = <<"1">>         -> Return(JNum, <<>>)
      [] OTHER                  -> Raise("JSONDecodeError", None, <<>>)

\* A faulty StripFences: the opening ```json marker is cut as if it were
\* six characters long.
StripFencesShortCut(content) ==
    LET stripped == Strip(content)
        opened == IF StartsWith(stripped, JsonFence)
                  THEN DropFirst(stripped, 6)
                  ELSE IF StartsWith(stripped, Fence)
                       THEN DropFirst(stripped, 3)
                       ELSE stripped
        closed == IF EndsWith(opened, Fence) THEN DropLast(opened, 3)
                  ELSE opened
    IN Strip(closed)

\* AnthropicClient.generate_json, lines 204-211.
StripFences(content) ==
    LET stripped == Strip(content)
        opened == IF StartsWith(stripped, JsonFence)
                  THEN DropFirst(stripped, 7)
                  ELSE IF StartsWith(stripped, Fence)
                       THEN DropFirst(stripped, 3)
                       ELSE stripped
        closed == IF EndsWith(opened, Fence) THEN DropLast(opened, 3)
                  ELSE opened
    IN Strip(closed)

\* The reply contents of the model: a body, possibly inside fence markers,
\* with whitespace around each part.
Whitespaces == {<<>>, <<" ">>, <<"\n">>}

Openers == {<<>>, Fence, JsonFence}

Closers == {<<>>, Fence}

Wrap(w1, opener, w2, body, w3, closer, w4) ==
    w1 \o opener \o w2 \o body \o w3 \o closer \o w4

Contents ==
    {Wrap(w1, opener, w2, body, w3, closer, w4) :
        w1 \in Whitespaces, opener \in Openers, w2 \in Whitespaces,
        body \in Bodies, w3 \in Whitespaces, closer \in Closers,
        w4 \in Whitespaces}

\* Under response_format json_object the content is the text of a JSON
\* object, or such a text cut off at max_tokens, or empty.
JsonModeContents ==
    {<<>>} \cup
    {w1 \o body \o w2 :
        w1 \in Whitespaces,
        body \in {EmptyObjectText, CvObjectText, TruncatedText},
        w2 \in Whitespaces}

ContentsOf(c) ==
    IF c.cls = "OpenAIClient" THEN JsonModeContents ELSE Contents

\* What the remote call yields: content, no content at all
\* (message.content is None / the content list is empty), or an exception
\* of the SDK.
ResponsesWith(texts) ==
    {[kind |-> "content", text |-> t] : t \in texts}
    \cup {[kind |-> k, text |-> <<>>] : k \in {"nocontent", "exception"}}

\* OpenAIClient.generate, line 116: `message.content or ""`.
OpenAIGenerate(response) ==
    CASE response.kind = "exception" -> Raise("APIError", None, <<>>)
      [] response.kind = "nocontent" -> Return(<<>>, <<>>)
      [] response.kind = "content"   -> Return(response.text, <<>>)

\* AnthropicClient.generate, line 175: `response.content[0].text`.
AnthropicGenerate(response) ==
    CASE response.kind = "exception" -> Raise("APIError", None, <<>>)
      [] response.kind = "nocontent" -> Raise("IndexError", None, <<>>)
      [] response.kind = "content"   -> Return(response.text, <<>>)

generate(c, response) ==
    IF c.cls = "OpenAIClient" THEN OpenAIGenerate(response)
    ELSE AnthropicGenerate(response)

\* OpenAIClient.generate_json, lines 137-138: `content or "{}"`, json.loads.
OpenAIJsonOfContent(response) ==
    CASE response.kind = "exception" -> Raise("APIError", None, <<>>)
      [] response.kind = "nocontent" -> JsonLoads(EmptyObjectText)
      [] response.kind = "content"   ->
            JsonLoads(IF response.text = <<>> THEN EmptyObjectText
                      ELSE response.text)

\* AnthropicClient.generate_json, lines 201-213.
AnthropicJsonOfContent(response) ==
    CASE response.kind = "exception" -> Raise("APIError", None, <<>>)
      [] response.kind = "nocontent" -> Raise("IndexError", None, <<>>)
      [] response.kind = "content"   -> JsonLoads(StripFences(response.text))

generate_json_text(c, response) ==
    IF c.cls = "OpenAIClient" THEN OpenAIJsonOfContent(response)
    ELSE AnthropicJsonOfContent(response)

\* The arguments of generate and generate_json, and what of them goes into
\* the request: `if system_prompt:` and, for Anthropic, `if temperature > 0:`.
SystemPrompts == {None, "", "SYSTEM"}

Temperatures == {0, 7}

SentSystem(system_prompt) ==
    IF Truthy(system_prompt) THEN system_prompt ELSE None

SentTemperature(cls, temperature) ==
    IF cls = "AnthropicClient" /\ ~(temperature > 0) THEN None
    ELSE temperature

\* A faulty Issue: the request is sent a second time.
IssueTwice(log, request) == Append(Append(log, request), request)

\* The one call of chat.completions.create / messages.create that generate
\* and generate_json make.
Issue(log, request) == Append(log, request)

\* AIClient.generate
Generate ==
    /\ pc = "start"
    /\ client # NoClient
    /\ \E system_prompt \in SystemPrompts, temperature \in Temperatures,
          response \in ResponsesWith(Texts) :
          /\ call' = [op |-> "generate", text |-> <<>>, resp |-> response,
                      system_prompt |-> system_prompt,
                      temperature |-> temperature]
          /\ requests' =
                Issue(requests,
                      Request(client.cls, SentSystem(system_prompt),
                              SentTemperature(client.cls, temperature)))
          /\ outcome' = generate(client, response)
    /\ pc' = "done"
    /\ UNCHANGED <<env, sdk, client, files, doc>>

\* AIClient.generate_json, on the reply as text
GenerateJson ==
    /\ pc = "start"
    /\ client # NoClient
    /\ \E system_prompt \in SystemPrompts, temperature \in Temperatures,
          response \in ResponsesWith(ContentsOf(client)) :
          /\ call' = [op |-> "generate_json", text |-> <<>>,
                      resp |-> response, system_prompt |-> system_prompt,
                      temperature |-> temperature]
          /\ requests' =
                Issue(requests,
                      Request(client.cls, SentSystem(system_prompt),
                              SentTemperature(client.cls, temperature)))
          /\ outcome' = generate_json_text(client, response)
    /\ pc' = "done"
    /\ UNCHANGED <<env, sdk, client, files, doc>>

-----------------------------------------------------------------------------
(* AIResumeService.                                                        *)

MsgNoText ==
    "Could not extract any text from {file_path}. The file may be"
    \o " image-based or corrupted."

MsgParseFailed ==
    "AI failed to generate valid resume structure. Please try again."

MsgPolishFailed ==
    "AI failed to generate valid polished resume. Please try again."

MsgTailorFailed ==
    "AI failed to generate valid tailored resume. Please try again."

MsgGenerateFailed == "AI failed to generate valid resume. Please try again."

MsgEmptyJob == "Job description cannot be empty."

MsgEmptyInfo == "User information cannot be empty."

\* `if not text.strip():`
Blank(text) == Strip(text) = <<>>

\* The validation shared by parse, polish and generate:
\* `if "cv" not in result: raise ...; return result`.
RequireCv(result, message) ==
    IF ~SupportsIn(result) THEN Raise("TypeError", None, <<>>)
    ELSE IF ~In("cv", result) THEN Raise("RenderCVUserError", message, <<>>)
    ELSE Return(result, <<>>)

\* result["resume"]: the entry of a dict; a list or a str cannot be indexed
\* by a string.
CanSubscript(result) == result.t = "obj"

\* The extraction of tailor_resume (lines 144-154).
ExtractTailored(result) ==
    IF ~SupportsIn(result) THEN Raise("TypeError", None, <<>>)
    ELSE IF In("cv", result) THEN Return(result, <<>>)
    ELSE IF ~In("resume", result)
         THEN Raise("RenderCVUserError", MsgTailorFailed, <<>>)
    ELSE IF ~CanSubscript(result) THEN Raise("TypeError", None, <<>>)
    ELSE LET inner == result.m["resume"] IN
         IF ~SupportsIn(inner) THEN Raise("TypeError", None, <<>>)
         ELSE IF In("cv", inner) THEN Return(inner, <<>>)
         ELSE Raise("RenderCVUserError", MsgTailorFailed, <<>>)

\* What an operation makes of generate_json's outcome: an exception of
\* generate_json propagates, a value is validated.
Validate(generated, message) ==
    IF generated.kind = "raise" THEN generated
    ELSE RequireCv(generated.value, message)

ValidateTailored(generated) ==
    IF generated.kind = "raise" THEN generated
    ELSE ExtractTailored(generated.value)

\* Whether parse_resume goes on to the provider with the extracted text.
ParsePrecondition(resume_text) == ~Blank(resume_text)

\* A faulty TailorPrecondition: the text is tested without strip().
TailorPreconditionNoStrip(job_description) == job_description # <<>>

\* Whether tailor_resume goes on to the provider with the job description.
TailorPrecondition(job_description) == ~Blank(job_description)

\* Whether generate_resume goes on to the provider with the user info.
GeneratePrecondition(user_info) == ~Blank(user_info)

-----------------------------------------------------------------------------
(* The service as a state machine: a service holding a client performs one *)
(* operation; the remote model's response is an input of the step.         *)

ServiceEnv == [n \in EnvNames |-> None]

AllInstalled == [p \in {"openai", "anthropic"} |-> TRUE]

InitService ==
    /\ env = ServiceEnv
    /\ sdk = AllInstalled
    /\ pc = "start"
    /\ call = NoCall
    /\ outcome = NoOutcome
    /\ \E provider \in {"openai", "anthropic"} :
          client = get_ai_client(provider, "arg-key", None, env, sdk).value
    /\ requests = <<>>
    /\ files = NoFiles
    /\ doc = NoDoc

\* AIResumeService.parse_resume, on the text extract_resume_text returned.
ParseResume ==
    /\ pc = "start"
    /\ client # NoClient
    /\ \E resume_text \in Texts, resp \in ResponsesOf(client) :
          /\ call' = [op |-> "parse_resume", text |-> resume_text,
                      resp |-> resp]
          /\ IF ~ParsePrecondition(resume_text)
             THEN /\ outcome' = Raise("RenderCVUserError", MsgNoText, <<>>)
                  /\ UNCHANGED requests
             ELSE /\ requests' =
                        Issue(requests,
                              Request(client.cls, "PARSE_RESUME_PROMPT", 2))
                  /\ outcome' = Validate(generate_json(client, resp),
                                         MsgParseFailed)
    /\ pc' = "done"
    /\ UNCHANGED <<env, sdk, client, files, doc>>

\* AIResumeService.polish_resume
PolishResume ==
    /\ pc = "start"
    /\ client # NoClient
    /\ \E resp \in ResponsesOf(client) :
          /\ call' = [op |-> "polish_resume", text |-> <<>>, resp |-> resp]
          /\ requests' =
                Issue(requests, Request(client.cls, "POLISH_RESUME_PROMPT", 5))
          /\ outcome' = Validate(generate_json(client, resp), MsgPolishFailed)
    /\ pc' = "done"
    /\ UNCHANGED <<env, sdk, client, files, doc>>

\* AIResumeService.tailor_resume
TailorResume ==
    /\ pc = "start"
    /\ client # NoClient
    /\ \E job_description \in Texts, resp \in ResponsesOf(client) :
          /\ call' = [op |-> "tailor_resume", text |-> job_description,
                      resp |-> resp]
          /\ IF ~TailorPrecondition(job_description)
             THEN /\ outcome' = Raise("RenderCVUserError", MsgEmptyJob, <<>>)
                  /\ UNCHANGED requests
             ELSE /\ requests' =
                        Issue(requests,
                              Request(client.cls, "TAILOR_RESUME_PROMPT", 4))
                  /\ outcome' = ValidateTailored(generate_json(client, resp))
    /\ pc' = "done"
    /\ UNCHANGED <<env, sdk, client, files, doc>>

\* AIResumeService.generate_resume
GenerateResume ==
    /\ pc = "start"
    /\ client # NoClient
    /\ \E user_info \in Texts, resp \in ResponsesOf(client) :
          /\ call' = [op |-> "generate_resume", text |-> user_info,
                      resp |-> resp]
          /\ IF ~GeneratePrecondition(user_info)
             THEN /\ outcome' = Raise("RenderCVUserError", MsgEmptyInfo, <<>>)
                  /\ UNCHANGED requests
             ELSE /\ requests' =
                        Issue(requests,
                              Request(client.cls, "GENERATE_RESUME_PROMPT", 6))
                  /\ outcome' = Validate(generate_json(client, resp),
                                         MsgGenerateFailed)
    /\ pc' = "done"
    /\ UNCHANGED <<env, sdk, client, files, doc>>

NextService ==
    \/ ParseResume
    \/ PolishResume
    \/ TailorResume
    \/ GenerateResume
    \/ Generate
    \/ GenerateJson

SpecService == InitService /\ [][NextService]_vars

-----------------------------------------------------------------------------
(* The text extractor (rendercv.ai.parser).  A file is what each reader   *)
(* makes of it: pypdf's view (pages), python-docx's view (paragraphs and   *)
(* tables) and the bytes read_text gets.  Extracted PDF and DOCX text is a *)
(* sequence of characters; the text of a plain-text file is the sequence   *)
(* of the code points its bytes decode to.                                 *)

\* The exceptions of the libraries and of the file system, with str(e).
Exc(type, text) == [type |-> type, text |-> text]

ImportErrorOf(package) == Exc("ImportError", "No module named " \o package)

PdfReadError == Exc("PdfReadError", "EOF marker not found")

PageError == Exc("KeyError", "/Contents")

PackageNotFoundError == Exc("PackageNotFoundError", "Package not found")

PermissionError == Exc("PermissionError", "[Errno 13] Permission denied")

UnicodeDecodeError == Exc("UnicodeDecodeError", "invalid start byte")

\* The paths of the model and pathlib's file_path.suffix for each.
ParserPaths ==
    {"cv.pdf", "cv.PDF", "cv.docx", "cv.DocX", "cv.txt", "cv.TXT", "cv.md",
     "cv.rst", "cv.Rst", "cv.xyz", "cv", "cv.tar.gz", "cv.pdf.txt",
     "cv.txt.bak", "cv.doc"}

\* Paths at which no file system of the model has a file.
AbsentPaths == {"gone.pdf", "gone.txt", "gone.xyz"}

Suffix(path) ==
    CASE path \in {"cv.pdf", "gone.pdf"}           -> ".pdf"
      [] path = "cv.PDF"                           -> ".PDF"
      [] path = "cv.docx"                          -> ".docx"
      [] path = "cv.DocX"                          -> ".DocX"
      [] path \in {"cv.txt", "cv.pdf.txt", "gone.txt"} -> ".txt"
      [] path = "cv.TXT"                           -> ".TXT"
      [] path = "cv.md"                            -> ".md"
      [] path = "cv.rst"                           -> ".rst"
      [] path = "cv.Rst"                           -> ".Rst"
      [] path \in {"cv.xyz", "gone.xyz"}           -> ".xyz"
      [] path = "cv"                               -> ""
      [] path = "cv.tar.gz"                        -> ".gz"
      [] path = "cv.txt.bak"                       -> ".bak"
      [] path = "cv.doc"                           -> ".doc"

\* A faulty Lower: the suffix is compared as written.
LowerAsWritten(s) == s

\* str.lower() on the suffixes of the model.
Lower(s) ==
    CASE s = ".PDF"  -> ".pdf"
      [] s = ".DocX" -> ".docx"
      [] s = ".TXT"  -> ".txt"
      [] s = ".Rst"  -> ".rst"
      [] OTHER       -> s

\* All sequences over a set of at most n elements.
SeqsUpTo(S, n) == UNION {[1..k -> S] : k \in 0..n}

\* sep.join(parts) on sequences of characters.
RECURSIVE Join(_, _)
Join(parts, sep) ==
    IF parts = <<>> THEN <<>>
    ELSE IF Len(parts) = 1 THEN parts[1]
    ELSE parts[1] \o sep \o Join(Tail(parts), sep)

BlankLine == <<"\n", "\n">>

\* pypdf's view of a file: PdfReader fails, or there are pages, each of
\* which yields text, yields None, or fails in extract_text.
MaxPages == 2

PageTexts == {<<>>, <<" ">>, <<"a">>, <<"b">>}

PageResults ==
    {[kind |-> "text", text |-> t] : t \in PageTexts}
    \cup {[kind |-> k, text |-> <<>>] : k \in {"none", "raise"}}

PdfViews ==
    {[reader |-> "ok", pages |-> ps] : ps \in SeqsUpTo(PageResults, MaxPages)}
    \cup {[reader |-> "error", pages |-> <<>>]}

NotAPdf == [reader |-> "error", pages |-> <<>>]

\* python-docx's view of a file: Document fails, or there are paragraphs
\* and tables; a table is a sequence of rows, a row a sequence of cells.
MaxParagraphs == 2

MaxRows == 2

\* The largest number of cells of a table, all its rows together.
MaxCells == 2

ParagraphTexts == {<<>>, <<" ">>, <<"p">>, <<" ", "q">>}

CellTexts == {<<" ">>, <<" ", "c">>, <<"d", " ">>}

Rows == SeqsUpTo(CellTexts, MaxCells)

RECURSIVE TotalCells(_)
TotalCells(table) ==
    IF table = <<>> THEN 0 ELSE Len(Head(table)) + TotalCells(Tail(table))

Tables == {t \in SeqsUpTo(Rows, MaxRows) : TotalCells(t) <= MaxCells}

SampleTable == << << <<"d", " ">>, <<" ">>, <<" ", "c">> >> >>

TableLists == {<<t>> : t \in Tables} \cup {<<t, SampleTable>> : t \in Tables}

DocxViews ==
    {[open |-> "ok", paragraphs |-> ps, tables |-> <<>>] :
        ps \in SeqsUpTo(ParagraphTexts, MaxParagraphs)}
    \cup {[open |-> "ok", paragraphs |-> ps, tables |-> ts] :
            ps \in {<<>>, << <<"p">> >>}, ts \in TableLists}
    \cup {[open |-> "error", paragraphs |-> <<>>, tables |-> <<>>]}

NotADocx == [open |-> "error", paragraphs |-> <<>>, tables |-> <<>>]

\* What read_text gets: the bytes of the file, and for each of the two
\* attempts whether the read itself succeeds.
MaxBytes == 2

ByteValues == {65, 195, 169, 233}

RawViews ==
    {[bytes |-> bs, io |-> io] :
        bs \in SeqsUpTo(ByteValues, MaxBytes), io \in [1..2 -> {"ok", "error"}]}

Readable(bs) == [bytes |-> bs, io |-> <<"ok", "ok">>]

\* Files by what they are.
PdfFile(view) ==
    [pdf |-> view, docx |-> NotADocx, raw |-> Readable(<<233>>)]

DocxFile(view) ==
    [pdf |-> NotAPdf, docx |-> view, raw |-> Readable(<<233>>)]

TextFile(raw) == [pdf |-> NotAPdf, docx |-> NotADocx, raw |-> raw]

SampleFiles ==
    {PdfFile([reader |-> "ok",
              pages |-> <<[kind |-> "text", text |-> <<"a">>]>>]),
     DocxFile([open |-> "ok", paragraphs |-> << <<"p">> >>, tables |-> <<>>]),
     TextFile(Readable(<<65>>))}

\* The decoding of read_text(encoding="utf-8"): code points from bytes.  Of
\* the lead bytes, those of one-byte, two-byte and (E1..EC) three-byte
\* sequences are decoded, which covers ByteValues; the other bytes are
\* continuation bytes or do not occur.
IsContinuation(b) == b >= 128 /\ b <= 191

Decoded(text) == [ok |-> TRUE, text |-> text]

Undecodable == [ok |-> FALSE, text |-> <<>>]

RECURSIVE Utf8Decode(_)
Utf8Decode(bytes) ==
    IF bytes = <<>> THEN Decoded(<<>>)
    ELSE LET b == bytes[1]
             n == IF b < 128 THEN 1
                  ELSE IF b >= 194 /\ b <= 223 THEN 2
                  ELSE IF b >= 225 /\ b <= 236 THEN 3
                  ELSE 0
         IN IF n = 0 \/ Len(bytes) < n THEN Undecodable
            ELSE IF \E i \in 2..n : ~IsContinuation(bytes[i]) THEN Undecodable
            ELSE LET point ==
                         CASE n = 1 -> b
                           [] n = 2 -> (b - 192) * 64 + (bytes[2] - 128)
                           [] n = 3 -> (b - 224) * 4096
                                       + (bytes[2] - 128) * 64
                                       + (bytes[3] - 128)
                     rest == Utf8Decode(SubSeq(bytes, n + 1, Len(bytes)))
                 IN IF rest.ok THEN Decoded(<<point>> \o rest.text)
                    ELSE Undecodable

\* The decoding of read_text(encoding="latin-1"): every byte is the code
\* point of its value.
Latin1Decode(bytes) == Decoded(bytes)

\* The messages of the extractor.
MsgPypdfMissing ==
    "pypdf package is not installed. Install it with: pip install pypdf"

MsgDocxMissing ==
    "python-docx package is not installed. Install it with: pip install"
    \o " python-docx"

MsgPdfFailed(e) == "Failed to extract text from PDF: " \o e.text

MsgDocxFailed(e) == "Failed to extract text from DOCX: " \o e.text

MsgReadFailed(e) == "Failed to read text file: " \o e.text

MsgFileNotFound(file_path) == "File not found: " \o file_path

MsgUnsupported(suffix) ==
    "Unsupported file format: " \o suffix
    \o ". Supported formats: PDF, DOCX, TXT, MD"

\* `raise RenderCVUserError(message) from e` inside the named extractor.
UserError(message, e, extractor) ==
    RaiseFrom("RenderCVUserError", message, e, <<extractor>>)

\* A faulty MissingLibrary: the import is not guarded.
MissingLibraryIgnored(package, installed) == FALSE

\* `import pypdf` / `import docx` raising ImportError.
MissingLibrary(package, installed) == ~installed[package]

\* A faulty PageKept: only None is skipped.
PageKeptUnlessNone(page) == page.kind = "text"

\* `if text:` on what page.extract_text() returned.
PageKept(page) == page.kind = "text" /\ page.text # <<>>

\* The loop over reader.pages: the text parts, or the failure of a page.
RECURSIVE PdfTextParts(_)
PdfTextParts(pages) ==
    IF pages = <<>> THEN [ok |-> TRUE, parts |-> <<>>]
    ELSE LET page == Head(pages) IN
         IF page.kind = "raise" THEN [ok |-> FALSE, parts |-> <<>>]
         ELSE LET rest == PdfTextParts(Tail(pages)) IN
              IF ~rest.ok THEN rest
              ELSE [ok |-> TRUE,
                    parts |-> IF PageKept(page) THEN <<page.text>> \o rest.parts
                              ELSE rest.parts]

extract_text_from_pdf(file, installed) ==
    LET me == "extract_text_from_pdf" IN
    IF MissingLibrary("pypdf", installed)
    THEN UserError(MsgPypdfMissing, ImportErrorOf("pypdf"), me)
    ELSE IF file.pdf.reader = "error"
    THEN UserError(MsgPdfFailed(PdfReadError), PdfReadError, me)
    ELSE LET r == PdfTextParts(file.pdf.pages) IN
         IF ~r.ok THEN UserError(MsgPdfFailed(PageError), PageError, me)
         ELSE Return(Join(r.parts, BlankLine), <<me>>)

\* The non-blank paragraphs, as they are.
ParagraphEntries(paragraphs) ==
    SelectSeq(paragraphs, LAMBDA p : Strip(p) # <<>>)

\* row_text: the stripped texts of the non-blank cells of a row.
RowText(row) ==
    LET kept == SelectSeq(row, LAMBDA c : Strip(c) # <<>>) IN
    [i \in 1..Len(kept) |-> Strip(kept[i])]

Pipe == <<" ", "|", " ">>

\* A faulty RowKept: a row without text gives an entry too.
RowKeptAlways(row_text) == TRUE

\* `if row_text:`
RowKept(row_text) == row_text # <<>>

RECURSIVE RowEntries(_)
RowEntries(rows) ==
    IF rows = <<>> THEN <<>>
    ELSE LET row_text == RowText(Head(rows)) IN
         (IF RowKept(row_text) THEN <<Join(row_text, Pipe)>> ELSE <<>>)
         \o RowEntries(Tail(rows))

RECURSIVE TableEntries(_)
TableEntries(tables) ==
    IF tables = <<>> THEN <<>>
    ELSE RowEntries(Head(tables)) \o TableEntries(Tail(tables))

extract_text_from_docx(file, installed) ==
    LET me == "extract_text_from_docx" IN
    IF MissingLibrary("docx", installed)
    THEN UserError(MsgDocxMissing, ImportErrorOf("docx"), me)
    ELSE IF file.docx.open = "error"
    THEN UserError(MsgDocxFailed(PackageNotFoundError), PackageNotFoundError,
                   me)
    ELSE Return(Join(ParagraphEntries(file.docx.paragraphs)
                     \o TableEntries(file.docx.tables), BlankLine), <<me>>)

\* One read_text attempt: the read fails, the decoding fails, or text.
ReadText(raw, attempt, decoded) ==
    IF raw.io[attempt] = "error"
    THEN [kind |-> "raise", exc |-> PermissionError, text |-> <<>>]
    ELSE IF ~decoded.ok
    THEN [kind |-> "raise", exc |-> UnicodeDecodeError, text |-> <<>>]
    ELSE [kind |-> "ok", exc |-> None, text |-> decoded.text]

\* A faulty DecodeFallback: the second attempt decodes as UTF-8 again.
DecodeFallbackUtf8(bytes) == Utf8Decode(bytes)

\* The decoding of the second attempt.
DecodeFallback(bytes) == Latin1Decode(bytes)

extract_text_from_txt(file) ==
    LET me == "extract_text_from_txt"
        first == ReadText(file.raw, 1, Utf8Decode(file.raw.bytes))
        second == ReadText(file.raw, 2, DecodeFallback(file.raw.bytes))
    IN IF first.kind = "ok" THEN Return(first.text, <<me>>)
       ELSE IF first.exc = UnicodeDecodeError
       THEN IF second.kind = "ok" THEN Return(second.text, <<me>>)
            ELSE UserError(MsgReadFailed(second.exc), second.exc, me)
       ELSE UserError(MsgReadFailed(first.exc), first.exc, me)

extract_resume_text(file_path, fs, installed) ==
    IF file_path \notin DOMAIN fs
    THEN Raise("RenderCVUserError", MsgFileNotFound(file_path), <<>>)
    ELSE LET suffix == Lower(Suffix(file_path))
             file == fs[file_path]
         IN IF suffix = ".pdf" THEN extract_text_from_pdf(file, installed)
            ELSE IF suffix = ".docx"
            THEN extract_text_from_docx(file, installed)
            ELSE IF suffix \in {".txt", ".md", ".rst"}
            THEN extract_text_from_txt(file)
            ELSE Raise("RenderCVUserError", MsgUnsupported(suffix), <<>>)

-----------------------------------------------------------------------------
(* The extractor as a state machine: in some file system, with some of    *)
(* the optional packages installed, a caller makes one call of             *)
(* extract_resume_text.                                                    *)

Packages == {"openai", "anthropic", "pypdf", "docx"}

AllPackages == [p \in Packages |-> TRUE]

\* The SDKs are installed; pypdf and python-docx may be missing.
ParserLibraries ==
    {s \in [Packages -> BOOLEAN] : s["openai"] /\ s["anthropic"]}

\* One file of each kind under every path of the model.
SampleFileSystems == {p :> f : p \in ParserPaths, f \in SampleFiles}

\* Every file of the model under the usual path of its kind.
FileSystemsByContent ==
    {"cv.pdf" :> PdfFile(v) : v \in PdfViews}
    \cup {"cv.docx" :> DocxFile(v) : v \in DocxViews}
    \cup {"cv.txt" :> TextFile(r) : r \in RawViews}

InitParser ==
    /\ env = ServiceEnv
    /\ \/ sdk \in ParserLibraries /\ files \in SampleFileSystems
       \/ sdk = AllPackages /\ files \in FileSystemsByContent \cup {NoFiles}
    /\ pc = "start"
    /\ call = NoCall
    /\ outcome = NoOutcome
    /\ client = NoClient
    /\ requests = <<>>
    /\ doc = NoDoc

\* extract_resume_text(file_path)
ExtractResumeText ==
    /\ pc = "start"
    /\ \E file_path \in DOMAIN files \cup AbsentPaths :
          /\ call' = [op |-> "extract_resume_text", file_path |-> file_path]
          /\ outcome' = extract_resume_text(file_path, files, sdk)
    /\ pc' = "done"
    /\ UNCHANGED <<env, sdk, client, requests, files, doc>>

NextParser == ExtractResumeText

SpecParser == InitParser /\ [][NextParser]_vars

\* The optional packages: any of the four may be missing, both credential
\* variables are set, and the caller extracts a file or builds a client.
InstallEnv == [n \in EnvNames |-> "env-" \o n]

InitInstall ==
    /\ env = InstallEnv
    /\ sdk \in [Packages -> BOOLEAN]
    /\ files \in {p :> f : p \in {"cv.pdf", "cv.docx", "cv.txt"},
                           f \in SampleFiles}
    /\ pc = "start"
    /\ call = NoCall
    /\ outcome = NoOutcome
    /\ client = NoClient
    /\ requests = <<>>
    /\ doc = NoDoc

NextInstall ==
    \/ ExtractResumeText
    \/ CallGetAIClient

SpecInstall == InitInstall /\ [][NextInstall]_vars

-----------------------------------------------------------------------------
(* save_resume_yaml.  A resume document is a Python dict: a sequence of    *)
(* entries in insertion order with distinct keys.  Values are tagged:      *)
(* None, a string, or a nested mapping.                                    *)

YNull == [t |-> "null", s |-> "", entries |-> <<>>]

YStr(s) == [t |-> "str", s |-> s, entries |-> <<>>]

YMap(entries) == [t |-> "map", s |-> "", entries |-> entries]

Entry(key, value) == [key |-> key, value |-> value]

\* `key in resume_data` and resume_data[key]
Has(data, key) == \E i \in DOMAIN data : data[i].key = key

Get(data, key) ==
    IF Has(data, key)
    THEN data[CHOOSE i \in DOMAIN data : data[i].key = key].value
    ELSE Absent

\* {"theme": theme} and {"language": locale}
DesignBlock(theme) == YMap(<<Entry("theme", YStr(theme))>>)

LocaleBlock(locale) == YMap(<<Entry("language", YStr(locale))>>)

\* A faulty NeedsDefault: a key whose value is None counts as missing.
NeedsDefaultIfFalsy(data, key) == ~Has(data, key) \/ Get(data, key) = YNull

\* `if "design" not in resume_data:` / `if "locale" not in resume_data:`
NeedsDefault(data, key) == ~Has(data, key)

\* resume_data[key] = block, for a key the dict may not have yet.
WithDefault(data, key, block) ==
    IF NeedsDefault(data, key) THEN Append(data, Entry(key, block)) ELSE data

\* Lines 199-202: the document as it is dumped.
SaveData(resume_data, theme, locale) ==
    WithDefault(WithDefault(resume_data, "design", DesignBlock(theme)),
                "locale", LocaleBlock(locale))

\* YAML as ruamel.yaml writes and reads it.  A file holds a node tree: a
\* scalar is plain or quoted, and a plain scalar is resolved by its text
\* when it is loaded (YAML 1.2 core schema).
YBool(s) == [t |-> "bool", s |-> s, entries |-> <<>>]

PlainScalar(s) == [t |-> "plain", s |-> s, entries |-> <<>>]

QuotedScalar(s) == [t |-> "quoted", s |-> s, entries |-> <<>>]

MapNode(entries) == [t |-> "mapping", s |-> "", entries |-> entries]

SeqNode(items) == [t |-> "sequence", s |-> "", entries |-> items]

\* What the parser makes of an empty file, and of text that is not YAML.
EmptyStream == [t |-> "empty", s |-> "", entries |-> <<>>]

NotYaml == [t |-> "invalid", s |-> "", entries |-> <<>>]

NullWords == {"", "null", "Null", "NULL", "~"}

BoolWords == {"true", "false"}

\* A faulty NeedsQuotes: every string is written plain.
NeedsQuotesNever(s) == FALSE

\* The representer quotes a string that would not be read back as a
\* string if it were written plain.
NeedsQuotes(s) == s \in NullWords \cup BoolWords

RECURSIVE Represent(_)
\* yaml.dump: the node tree of a Python value.  None inside a mapping is
\* written as the empty plain scalar.
Represent(v) ==
    CASE v.t = "null" -> PlainScalar("")
      [] v.t = "bool" -> PlainScalar(v.s)
      [] v.t = "str"  -> IF NeedsQuotes(v.s) THEN QuotedScalar(v.s)
                         ELSE PlainScalar(v.s)
      [] v.t = "map"  ->
            MapNode([i \in DOMAIN v.entries |->
                        Entry(v.entries[i].key,
                              Represent(v.entries[i].value))])

RECURSIVE Construct(_)
\* yaml.load: the Python value of a node tree.
Construct(n) ==
    CASE n.t = "plain" ->
            IF n.s \in NullWords THEN YNull
            ELSE IF n.s \in BoolWords THEN YBool(n.s)
            ELSE YStr(n.s)
      [] n.t = "quoted" -> YStr(n.s)
      [] n.t = "mapping" ->
            YMap([i \in DOMAIN n.entries |->
                     Entry(n.entries[i].key, Construct(n.entries[i].value))])
      [] n.t = "sequence" ->
            [t |-> "list", s |-> "",
             entries |-> [i \in DOMAIN n.entries |-> Construct(n.entries[i])]]
      [] n.t = "empty" -> YNull

\* yaml.dump(resume_data, f) and the dict that yaml.load gives back.
Dump(data) == Represent(YMap(data))

\* A file: the node tree it holds, whether the path is a directory, and
\* whether it can be opened for reading and for writing.
File(yaml, dir, readable, writable) ==
    [yaml |-> yaml, dir |-> dir, readable |-> readable,
     writable |-> writable]

\* A regular readable file holding the dump of a document.
YamlFile(data, writable) == File(Dump(data), FALSE, TRUE, writable)

\* output_path.open("w") succeeds on a missing path and on a writable file.
CanWrite(fs, path) ==
    path \notin DOMAIN fs \/ (fs[path].writable /\ ~fs[path].dir)

\* The file system after `with output_path.open("w") as f: yaml.dump(...)`:
\* a new file is created readable, an existing one keeps its permissions.
Written(fs, path, data) ==
    [p \in DOMAIN fs \cup {path} |->
        IF p = path
        THEN File(Dump(data), FALSE,
                  IF path \in DOMAIN fs THEN fs[path].readable ELSE TRUE,
                  TRUE)
        ELSE fs[p]]

\* The exceptions of opening and parsing a YAML file.
IsADirectoryError == Exc("IsADirectoryError", "[Errno 21] Is a directory")

ScannerError == Exc("ScannerError", "mapping values are not allowed here")

MsgInvalidYaml(file_path) == "Invalid YAML structure in " \o file_path

MsgLoadFailed(text) == "Failed to load YAML file: " \o text

\* `raise e` for an exception that is not a RenderCVUserError.
RaiseExc(e) == Raise(e.type, e.text, <<>>)

\* Lines 228-233, the body of the try: open, yaml.load, the isinstance
\* check, `return dict(data)`.
LoadBody(file_path, f) ==
    IF f.dir THEN RaiseExc(IsADirectoryError)
    ELSE IF ~f.readable THEN RaiseExc(PermissionError)
    ELSE IF f.yaml.t = "invalid" THEN RaiseExc(ScannerError)
    ELSE LET data == Construct(f.yaml)
         IN IF data.t # "map"
            THEN Raise("RenderCVUserError", MsgInvalidYaml(file_path), <<>>)
            ELSE Return(data.entries, <<>>)

\* A faulty LoadHandlers: every exception of the body is wrapped.
LoadHandlersWrapAll(o) ==
    IF o.kind = "raise"
    THEN RaiseFrom("RenderCVUserError", MsgLoadFailed(o.message),
                   Exc(o.error, o.message), <<>>)
    ELSE o

\* Lines 236-241: `except RenderCVUserError: raise` and
\* `except Exception as e: raise RenderCVUserError(...) from e`.
LoadHandlers(o) ==
    IF o.kind = "raise" /\ o.error # "RenderCVUserError"
    THEN RaiseFrom("RenderCVUserError", MsgLoadFailed(o.message),
                   Exc(o.error, o.message), <<>>)
    ELSE o

\* load_resume_yaml(file_path) in the file system fs.
load_resume_yaml(file_path, fs) ==
    IF file_path \notin DOMAIN fs
    THEN Raise("RenderCVUserError", MsgFileNotFound(file_path), <<>>)
    ELSE LoadHandlers(LoadBody(file_path, fs[file_path]))

\* The documents, themes and locales of the model.
DocKeys == {"cv", "design", "locale", "settings"}

ValuesOf(key) ==
    CASE key = "cv"       -> {YMap(<<Entry("name", YStr("Jane"))>>),
                              YMap(<<Entry("name", YStr("null")),
                                     Entry("phone", YNull)>>),
                              YMap(<<Entry("name", YStr("")),
                                     Entry("remote", YStr("true")),
                                     Entry("hired", YBool("true"))>>)}
      [] key = "design"   -> {YNull, DesignBlock("modern"),
                              YMap(<<Entry("theme", YStr("classic")),
                                     Entry("font", YStr("serif"))>>)}
      [] key = "locale"   -> {YNull, LocaleBlock("french")}
      [] key = "settings" -> {YMap(<<>>)}

Entries == UNION {{Entry(k, v) : v \in ValuesOf(k)} : k \in DocKeys}

Documents ==
    {d \in SeqsUpTo(Entries, Cardinality(DocKeys)) :
        \A i, j \in DOMAIN d : d[i].key = d[j].key => i = j}

Themes == {"classic", "modern"}

Locales == {"english", "french"}

OutputPath == "out.yaml"

OldData == <<Entry("cv", YMap(<<>>))>>

\* What the path may hold before the call: a resume (possibly read-only or
\* unreadable), an empty file, a list, a scalar, text that is not YAML, a
\* directory.
StoredFiles ==
    {YamlFile(OldData, w) : w \in BOOLEAN} \cup
    {File(Dump(OldData), FALSE, FALSE, TRUE),
     File(EmptyStream, FALSE, TRUE, TRUE),
     File(SeqNode(<<PlainScalar("cv")>>), FALSE, TRUE, TRUE),
     File(PlainScalar("resume"), FALSE, TRUE, TRUE),
     File(PlainScalar("null"), FALSE, TRUE, TRUE),
     File(NotYaml, FALSE, TRUE, TRUE),
     File(EmptyStream, TRUE, TRUE, TRUE)}

InitSave ==
    /\ env = ServiceEnv
    /\ sdk = AllInstalled
    /\ pc = "start"
    /\ call = NoCall
    /\ outcome = NoOutcome
    /\ client = NoClient
    /\ requests = <<>>
    /\ doc \in Documents
    /\ files \in {NoFiles} \cup {OutputPath :> f : f \in StoredFiles}

\* save_resume_yaml(resume_data, output_path, theme, locale)
SaveResumeYaml ==
    /\ pc = "start"
    /\ \E theme \in Themes, locale \in Locales :
          /\ call' = [op |-> "save_resume_yaml", resume_data |-> doc,
                      output_path |-> OutputPath, theme |-> theme,
                      locale |-> locale]
          /\ doc' = SaveData(doc, theme, locale)
          /\ IF CanWrite(files, OutputPath)
             THEN /\ files' = Written(files, OutputPath, doc')
                  /\ outcome' = Return(None, <<>>)
             ELSE /\ files' = files
                  /\ outcome' = Raise("PermissionError", None, <<>>)
    /\ pc' = "done"
    /\ UNCHANGED <<env, sdk, client, requests>>

\* load_resume_yaml(file_path), as the first call or on the path a
\* save_resume_yaml has just been given.
LoadResumeYaml ==
    /\ \/ pc = "start"
       \/ pc = "done" /\ call.op = "save_resume_yaml"
    /\ call' = [op |-> "load_resume_yaml", file_path |-> OutputPath,
                after |-> call, saved |-> doc]
    /\ outcome' = load_resume_yaml(OutputPath, files)
    /\ doc' = IF outcome'.kind = "return" THEN outcome'.value ELSE doc
    /\ pc' = IF pc = "start" THEN "loaded" ELSE "reloaded"
    /\ UNCHANGED <<env, sdk, client, requests, files>>

NextSave ==
    \/ SaveResumeYaml
    \/ LoadResumeYaml

SpecSave == InitSave /\ [][NextSave]_vars

-----------------------------------------------------------------------------
(* read_job_description.  The source is a sequence of characters; as a     *)
(* path it names the file stored under its string.  A path component       *)
(* longer than the file system's NAME_MAX cannot be looked up.             *)

RECURSIVE Str(_)
\* The string of a sequence of characters.
Str(chars) ==
    IF chars = <<>> THEN "" ELSE Head(chars) \o Str(Tail(chars))

NameMax == 3

\* A file that may hold a job description: a directory, or a regular file
\* with its bytes and whether reading them succeeds.
JobFile(raw) == [dir |-> FALSE, raw |-> raw]

JobDirectory == [dir |-> TRUE, raw |-> Readable(<<>>)]

\* Whether some component of the path has more than NameMax characters.
NameTooLong(source) ==
    \E i \in DOMAIN source :
        /\ i + NameMax \in DOMAIN source
        /\ \A j \in i..(i + NameMax) : source[j] # "/"

\* The character of a code point, for the code points files of the model
\* decode to.
Chr(code) ==
    CASE code = 32  -> " "
      [] code = 65  -> "A"
      [] code = 169 -> "U+00A9"
      [] code = 195 -> "U+00C3"
      [] code = 233 -> "U+00E9"

\* The str that read_text returns.
Chars(codes) == [i \in DOMAIN codes |-> Chr(codes[i])]

FileNameTooLong == Exc("OSError", "[Errno 36] File name too long")

\* path.exists() on a path that cannot be looked up: Path.stat() raises
\* OSError(ENAMETOOLONG), which pathlib's exists() passes on up to Python
\* 3.13 and turns into False from 3.14 on.  strict tells which.
\* path.exists() and path.is_file() otherwise.
read_job_description(source, fs, strict) ==
    LET path == Str(source)
    IN IF NameTooLong(source)
       THEN IF strict THEN RaiseExc(FileNameTooLong)
            ELSE Return(source, <<>>)
       ELSE IF path \in DOMAIN fs /\ ~fs[path].dir
       THEN LET read == ReadText(fs[path].raw, 1,
                                 Utf8Decode(fs[path].raw.bytes))
            IN IF read.kind = "ok" THEN Return(Chars(read.text), <<path>>)
               ELSE Return(source, <<path>>)
       ELSE Return(source, <<>>)

\* The sources of the model: short texts, some of which name a file.
JobChars == {"j", "/", " "}

JobSources == SeqsUpTo(JobChars, NameMax + 1)

JobFiles ==
    {JobFile(Readable(<<65>>)), JobFile(Readable(<<195, 169>>)),
     JobFile(Readable(<<32>>)),
     JobFile(Readable(<<233>>)), JobFile(Readable(<<>>)),
     JobFile([bytes |-> <<65>>, io |-> <<"error", "ok">>]),
     JobDirectory}

JobFileSystems ==
    {NoFiles} \cup {p :> f : p \in {"j", "j j", "/j"}, f \in JobFiles}

InitJob ==
    /\ env = ServiceEnv
    /\ sdk = AllInstalled
    /\ pc = "start"
    /\ call = NoCall
    /\ outcome = NoOutcome
    /\ client = NoClient
    /\ requests = <<>>
    /\ files \in JobFileSystems
    /\ doc = NoDoc

\* read_job_description(source)
ReadJobDescription ==
    /\ pc = "start"
    /\ \E source \in JobSources, strict \in BOOLEAN :
          /\ call' = [op |-> "read_job_description", source |-> source,
                      strict |-> strict]
          /\ outcome' = read_job_description(source, files, strict)
    /\ pc' = "done"
    /\ UNCHANGED <<env, sdk, client, requests, files, doc>>

NextJob == ReadJobDescription

SpecJob == InitJob /\ [][NextJob]_vars

-----------------------------------------------------------------------------
(* The AI commands of the command line (rendercv.cli.ai_command).  A path  *)
(* argument is a sequence of characters, so that pathlib's stem and        *)
(* str.replace are computed; the file system is keyed by the path written  *)
(* as a string.                                                            *)

\* The positions of character c in a sequence.
Positions(chars, c) == {i \in DOMAIN chars : chars[i] = c}

Last(S) == CHOOSE i \in S : \A j \in S : j <= i

\* pathlib's path.name: the final component.
PathName(path) ==
    IF Positions(path, "/") = {} THEN path
    ELSE SubSeq(path, Last(Positions(path, "/")) + 1, Len(path))

\* pathlib's stem of a name: the name without its last suffix; a dot that
\* starts or ends the name begins no suffix.
StemOfName(name) ==
    LET dots == Positions(name, ".")
    IN IF dots = {} \/ Last(dots) = 1 \/ Last(dots) = Len(name) THEN name
       ELSE SubSeq(name, 1, Last(dots) - 1)

\* input_file.stem
Stem(path) == StemOfName(PathName(path))

\* str.replace(old, new) for single characters.
Replace(chars, old, new) ==
    [i \in DOMAIN chars |-> IF chars[i] = old THEN new ELSE chars[i]]

\* The result of carry-over assignment polished_data[key] = resume_data[key]
\* for a key the document lacks.
Carried(old, new, key) ==
    IF Has(old, key) /\ ~Has(new, key)
    THEN Append(new, Entry(key, Get(old, key)))
    ELSE new

\* A faulty CarryOver: the old values replace the new ones.
CarryOverOldWins(old, new) ==
    LET kept == SelectSeq(new, LAMBDA e :
                    e.key \notin {"design", "locale", "settings"}
                    \/ ~Has(old, e.key))
        carried == SelectSeq(old, LAMBDA e :
                    e.key \in {"design", "locale", "settings"})
    IN kept \o carried

\* Lines 264-269 of ai_polish and 374-379 of ai_tailor.
CarryOver(old, new) ==
    Carried(old, Carried(old, Carried(old, new, "design"), "locale"),
            "settings")

\* What a command leaves behind: the stage it reached ("saved" when it got
\* through), the outcome, the file system, the output path, the loaded
\* document, the document handed to save_resume_yaml as it was dumped, and
\* the request the service issued.
CommandResult(stage, o, fs, output, old, data, issued) ==
    [stage |-> stage, outcome |-> o, files |-> fs, output |-> output,
     old |-> old, data |-> data, issued |-> issued]

\* A faulty Untouched: the output file is opened for writing, and so
\* emptied, before the command has a document.
TruncatedFirst(fs, output) ==
    IF CanWrite(fs, output) THEN Written(fs, output, <<>>) ELSE fs

\* The file system when a statement before save_resume_yaml raises: the
\* output path has not been opened.
Untouched(fs, output) == fs

\* A command that stops at a stage before save_resume_yaml.
Stopped(stage, o, fs, output, old, issued) ==
    CommandResult(stage, o, Untouched(fs, output), output, old, <<>>, issued)

\* generate_json by its outcome on a reply whose JSON is a document: the
\* clients' failures are those of generate_json, an empty OpenAI reply is
\* the empty dict.
GenerateDocument(c, resp) ==
    LET o == generate_json(c, [kind |-> resp.kind, value |-> JNull])
    IN IF o.kind = "raise" THEN o
       ELSE Return(IF resp.kind = "json" THEN resp.value ELSE <<>>, <<>>)

\* `if "cv" not in result: raise ...; return result` on a document.
RequireCvDocument(o, message) ==
    IF o.kind = "raise" THEN o
    ELSE IF ~Has(o.value, "cv")
    THEN Raise("RenderCVUserError", message, <<>>)
    ELSE o

\* The extraction of tailor_resume on a document: the 'resume' entry is
\* taken when it is a mapping with 'cv'; on None `"cv" in` raises.
ExtractTailoredDocument(o) ==
    IF o.kind = "raise" \/ Has(o.value, "cv") THEN o
    ELSE IF ~Has(o.value, "resume")
    THEN Raise("RenderCVUserError", MsgTailorFailed, <<>>)
    ELSE LET inner == Get(o.value, "resume")
         IN IF inner.t \in {"null", "bool"}
            THEN Raise("TypeError", None, <<>>)
            ELSE IF inner.t = "map" /\ Has(inner.entries, "cv")
            THEN Return(inner.entries, <<>>)
            ELSE Raise("RenderCVUserError", MsgTailorFailed, <<>>)

\* save_resume_yaml as the last statement of a command.
SaveStep(data, output, theme, locale, fs, old, issued) ==
    LET dumped == SaveData(data, theme, locale)
    IN IF CanWrite(fs, output)
       THEN CommandResult("saved", Return(None, <<>>),
                          Written(fs, output, dumped), output, old, dumped,
                          issued)
       ELSE CommandResult("save", RaiseExc(PermissionError), fs, output, old,
                          dumped, issued)

\* A faulty PolishOutput: an explicit --output wins over --in-place.
PolishOutputExplicitFirst(input_file, output, in_place) ==
    IF output # None THEN output
    ELSE IF in_place THEN Str(input_file)
    ELSE Str(Stem(input_file)) \o "_polished.yaml"

\* Lines 240-243 of ai_polish.
PolishOutput(input_file, output, in_place) ==
    IF in_place THEN Str(input_file)
    ELSE IF output = None THEN Str(Stem(input_file)) \o "_polished.yaml"
    ELSE output

\* Lines 350-351 of ai_tailor.
TailorOutput(input_file, output) ==
    IF output = None THEN Str(Stem(input_file)) \o "_tailored.yaml"
    ELSE output

\* ai_polish: load, construct the service, polish, carry over, save.
ai_polish(input_file, output, in_place, provider, api_key, e, installed, fs, resp) ==
    LET out == PolishOutput(input_file, output, in_place)
        loaded == load_resume_yaml(Str(input_file), fs)
        made == get_ai_client(provider, api_key, None, e, installed)
        issued == <<Request(made.value.cls, "POLISH_RESUME_PROMPT", 5)>>
        polished == RequireCvDocument(GenerateDocument(made.value, resp),
                                      MsgPolishFailed)
    IN IF loaded.kind = "raise"
       THEN Stopped("load", loaded, fs, out, <<>>, <<>>)
       ELSE IF made.kind = "raise"
       THEN Stopped("client", made, fs, out, loaded.value, <<>>)
       ELSE IF polished.kind = "raise"
       THEN Stopped("service", polished, fs, out, loaded.value, issued)
       ELSE SaveStep(CarryOver(loaded.value, polished.value), out, "classic",
                     "english", fs, loaded.value, issued)

\* ai_tailor: read the job description, load, construct the service,
\* tailor, carry over, save.
ai_tailor(input_file, job, output, provider, api_key, e, installed, fs, resp, strict) ==
    LET out == TailorOutput(input_file, output)
        job_description == read_job_description(job, fs, strict)
        loaded == load_resume_yaml(Str(input_file), fs)
        made == get_ai_client(provider, api_key, None, e, installed)
        issued == <<Request(made.value.cls, "TAILOR_RESUME_PROMPT", 4)>>
        tailored == ExtractTailoredDocument(GenerateDocument(made.value, resp))
    IN IF job_description.kind = "raise"
       THEN Stopped("job", job_description, fs, out, <<>>, <<>>)
       ELSE IF loaded.kind = "raise"
       THEN Stopped("load", loaded, fs, out, <<>>, <<>>)
       ELSE IF made.kind = "raise"
       THEN Stopped("client", made, fs, out, loaded.value, <<>>)
       ELSE IF ~TailorPrecondition(job_description.value)
       THEN Stopped("service", Raise("RenderCVUserError", MsgEmptyJob, <<>>),
                   fs, out, loaded.value, <<>>)
       ELSE IF tailored.kind = "raise"
       THEN Stopped("service", tailored, fs, out, loaded.value, issued)
       ELSE SaveStep(CarryOver(loaded.value, tailored.value), out, "classic",
                     "english", fs, loaded.value, issued)

\* Lines 137-138 of ai_parse.
ParseOutput(input_file, output) ==
    IF output = None THEN Str(Stem(input_file)) \o "_CV.yaml" ELSE output

\* The str that extract_resume_text returned: the text of a plain-text
\* file is modelled by its code points.
ExtractedChars(o) ==
    IF o.reads = <<"extract_text_from_txt">> THEN Chars(o.value) ELSE o.value

\* ai_parse: construct the service, parse_resume (extract the text, ask the
\* model), save.
ai_parse(input_file, output, theme, locale, provider, api_key, e, installed, fs, resp) ==
    LET out == ParseOutput(input_file, output)
        made == get_ai_client(provider, api_key, None, e, installed)
        extracted == extract_resume_text(Str(input_file), fs, installed)
        issued == <<Request(made.value.cls, "PARSE_RESUME_PROMPT", 2)>>
        parsed == RequireCvDocument(GenerateDocument(made.value, resp),
                                    MsgParseFailed)
    IN IF made.kind = "raise"
       THEN Stopped("client", made, fs, out, <<>>, <<>>)
       ELSE IF extracted.kind = "raise"
       THEN Stopped("service", extracted, fs, out, <<>>, <<>>)
       ELSE IF ~ParsePrecondition(ExtractedChars(extracted))
       THEN Stopped("service", Raise("RenderCVUserError", MsgNoText, <<>>),
                   fs, out, <<>>, <<>>)
       ELSE IF parsed.kind = "raise"
       THEN Stopped("service", parsed, fs, out, <<>>, issued)
       ELSE SaveStep(parsed.value, out, theme, locale, fs, <<>>, issued)

\* The sections of interactive mode, in the order of the list, and
\* key.title() of each.
Sections ==
    <<"headline", "location", "email", "phone", "linkedin", "github",
      "website", "education", "experience", "skills", "projects",
      "certifications">>

Title(key) ==
    CASE key = "headline"       -> "Headline"
      [] key = "location"       -> "Location"
      [] key = "email"          -> "Email"
      [] key = "phone"          -> "Phone"
      [] key = "linkedin"       -> "Linkedin"
      [] key = "github"         -> "Github"
      [] key = "website"        -> "Website"
      [] key = "education"      -> "Education"
      [] key = "experience"     -> "Experience"
      [] key = "skills"         -> "Skills"
      [] key = "projects"       -> "Projects"
      [] key = "certifications" -> "Certifications"

\* A faulty LoopEnds: the first empty line ends the section.
LoopEndsOnEmptyLine(line, lines) == line = <<>>

\* Lines 520-522: `if line == "": if lines and lines[-1] == "": break`.
LoopEnds(line, lines) ==
    line = <<>> /\ lines # <<>> /\ lines[Len(lines)] = <<>>

RECURSIVE ReadLines(_, _, _)
\* The `while True` loop of one section, reading stdin from position pos.
\* input() raises EOFError when stdin is exhausted.
ReadLines(stdin, pos, lines) ==
    IF pos > Len(stdin) THEN [eof |-> TRUE, lines |-> lines, next |-> pos]
    ELSE IF LoopEnds(stdin[pos], lines)
    THEN [eof |-> FALSE, lines |-> lines, next |-> pos + 1]
    ELSE ReadLines(stdin, pos + 1, Append(lines, stdin[pos]))

\* f"\n{key.title()}:\n{value}\n"
SectionText(key, value) == <<"\n", Title(key) \o ":", "\n">> \o value \o <<"\n">>

RECURSIVE Interactive(_, _, _, _, _)
\* The `for prompt_text, key in sections` loop from section k on: the text
\* gathered, the lines each section stored, and whether stdin ran out.
Interactive(stdin, k, pos, user_info, asked) ==
    IF k > Len(Sections)
    THEN [eof |-> FALSE, user_info |-> user_info, asked |-> asked]
    ELSE LET r == ReadLines(stdin, pos, <<>>)
             value == Strip(Join(r.lines, <<"\n">>))
             entry == [key |-> Sections[k], lines |-> r.lines,
                       from |-> pos, next |-> r.next]
         IN IF r.eof
            THEN [eof |-> TRUE, user_info |-> user_info,
                  asked |-> Append(asked, entry)]
            ELSE Interactive(stdin, k + 1, r.next,
                             IF value # <<>>
                             THEN user_info \o SectionText(Sections[k], value)
                             ELSE user_info,
                             Append(asked, entry))

SampleRequest ==
    <<"Please generate a sample professional resume for a software engineer with 5 years of experience.">>

\* Lines 483-484 of ai_generate.
GenerateOutput(name, output) ==
    IF output = None THEN Str(Replace(name, " ", "_")) \o "_CV.yaml"
    ELSE output

\* `elif info:` for info that is None or a str.
InfoGiven(info) == info.given /\ info.text # <<>>

\* A faulty UserInfo: --info is looked at before --interactive.
UserInfoInfoFirst(name, info, interactive, stdin, fs, strict) ==
    LET start == <<"Name: ">> \o name \o <<"\n", "\n">>
        answers == Interactive(stdin, 1, 1, start, <<>>)
        info_text == read_job_description(info.text, fs, strict)
    IN IF InfoGiven(info)
       THEN IF info_text.kind = "raise" THEN info_text
            ELSE Return(start \o info_text.value, <<"info">>)
       ELSE IF interactive
       THEN IF answers.eof THEN Raise("EOFError", None, <<"interactive">>)
            ELSE Return(answers.user_info, <<"interactive">>)
       ELSE Return(start \o SampleRequest, <<"sample">>)

\* Lines 487-541 of ai_generate: the user_info string.  The outcome's
\* reads names the source that was appended.
UserInfo(name, info, interactive, stdin, fs, strict) ==
    LET start == <<"Name: ">> \o name \o <<"\n", "\n">>
        answers == Interactive(stdin, 1, 1, start, <<>>)
        info_text == read_job_description(info.text, fs, strict)
    IN IF interactive
       THEN IF answers.eof THEN Raise("EOFError", None, <<"interactive">>)
            ELSE Return(answers.user_info, <<"interactive">>)
       ELSE IF InfoGiven(info)
       THEN IF info_text.kind = "raise" THEN info_text
            ELSE Return(start \o info_text.value, <<"info">>)
       ELSE Return(start \o SampleRequest, <<"sample">>)

\* ai_generate: gather the user information, construct the service,
\* generate_resume, save.
ai_generate(name, info, interactive, output, theme, locale, provider, api_key, e, installed, fs, resp, stdin, strict) ==
    LET out == GenerateOutput(name, output)
        user_info == UserInfo(name, info, interactive, stdin, fs, strict)
        made == get_ai_client(provider, api_key, None, e, installed)
        issued == <<Request(made.value.cls, "GENERATE_RESUME_PROMPT", 6)>>
        generated == RequireCvDocument(GenerateDocument(made.value, resp),
                                       MsgGenerateFailed)
    IN IF user_info.kind = "raise"
       THEN Stopped("info", user_info, fs, out, <<>>, <<>>)
       ELSE IF made.kind = "raise"
       THEN Stopped("client", made, fs, out, <<>>, <<>>)
       ELSE IF ~GeneratePrecondition(user_info.value)
       THEN Stopped("service", Raise("RenderCVUserError", MsgEmptyInfo, <<>>),
                   fs, out, <<>>, <<>>)
       ELSE IF generated.kind = "raise"
       THEN Stopped("service", generated, fs, out, <<>>, issued)
       ELSE SaveStep(generated.value, out, theme, locale, fs, <<>>, issued)

-----------------------------------------------------------------------------
(* The commands as a state machine: in some environment and file system a  *)
(* user runs one command; the reply of the remote model is an input of the *)
(* step.                                                                   *)

\* Paths of resume YAML files given as INPUT_FILE.
YamlInputs ==
    {<<"c", ".", "y">>, <<"c", ".", "t", ".", "y">>, <<".", "c">>,
     <<"c", ".">>, <<"c">>, <<"d", "/", "c", ".", "y">>}

\* No entry, or one entry of the key with one of the values.
Optional(key, values) == {<<>>} \cup {<<Entry(key, v)>> : v \in values}

\* The documents found in the input file.
OldDocuments ==
    {c \o d \o l \o s :
        c \in Optional("cv", {YMap(<<Entry("name", YStr("Jane"))>>)}),
        d \in Optional("design",
                       {YNull, YMap(<<Entry("theme", YStr("classic")),
                                      Entry("font", YStr("serif"))>>)}),
        l \in Optional("locale", {LocaleBlock("french")}),
        s \in Optional("settings", {YMap(<<>>)})}

\* The documents the remote model replies with.
NewDocuments ==
    {c \o s \o d \o l :
        c \in Optional("cv", {YMap(<<Entry("name", YStr("Jane Doe"))>>)}),
        s \in Optional("settings",
                       {YMap(<<Entry("bold", YBool("true"))>>)}),
        d \in Optional("design", {DesignBlock("modern")}),
        l \in Optional("locale", {YNull})}

\* Replies that hold the document under a 'resume' key, or hold no document
\* there.
WrappedDocuments ==
    {<<Entry("resume", YMap(d))>> :
        d \in {n \in NewDocuments : Has(n, "cv") /\ ~Has(n, "design")}}
    \cup {<<Entry("resume", YNull)>>,
          <<Entry("resume", YMap(<<Entry("resume", YMap(<<Entry("cv",
                YMap(<<>>))>>))>>))>>}

CliResponses ==
    {[kind |-> "json", value |-> d] :
        d \in NewDocuments \cup WrappedDocuments}
    \cup {[kind |-> k, value |-> <<>>] :
            k \in {"malformed", "empty", "exception"}}

CliOutputs == {None, "o.yaml"}

\* --provider and --api-key: neither, both, a provider alone, a key alone.
CliCredentials ==
    {[provider |-> None, api_key |-> None],
     [provider |-> "openai", api_key |-> "arg-key"],
     [provider |-> "anthropic", api_key |-> None],
     [provider |-> None, api_key |-> "arg-key"]}

CliEnvironments ==
    {ServiceEnv, [ServiceEnv EXCEPT !["ANTHROPIC_API_KEY"] = "env-key"]}

\* The job descriptions given with --job: text, blank text, text too long
\* for a file name.
\* strict is the interpreter's way with a name that is too long.
CliJobs ==
    {[text |-> t, strict |-> TRUE] :
        t \in {<<"j">>, <<" ">>, <<>>, [i \in 1..(NameMax + 1) |-> "j"]}}
    \cup {[text |-> [i \in 1..(NameMax + 1) |-> "j"], strict |-> FALSE]}

NoJob == [text |-> <<>>, strict |-> FALSE]

\* Paths of resume files given to parse as INPUT_FILE.
ResumeInputs ==
    {<<"c", "v", ".", "p", "d", "f">>, <<"c", "v", ".", "P", "D", "F">>,
     <<"c", "v", ".", "p", "d", "f", ".", "t", "x", "t">>,
     <<"c", "v", ".", "t", "a", "r", ".", "g", "z">>,
     <<"c", "v", ".", "t", "x", "t">>}

ResumeFiles ==
    SampleFiles \cup
    {PdfFile(NotAPdf), TextFile(Readable(<<>>)), TextFile(Readable(<<32>>)),
     TextFile(Readable(<<233>>))}

Infos_None == [given |-> FALSE, text |-> <<>>]

Infos_Text == [given |-> TRUE, text |-> <<"x">>]

CliStyle_Default == [theme |-> "classic", locale |-> "english"]

\* --theme and --locale of parse and generate.
CliStyles ==
    {[theme |-> "classic", locale |-> "english"],
     [theme |-> "modern", locale |-> "french"]}

\* --name
Names == {<<"J">>, <<"J", " ", "D">>, <<" ", "J", " ">>, <<>>}

\* --info: not given, the empty string, text, the name of a file, blank
\* text, text too long for a file name.
Infos ==
    {[given |-> FALSE, text |-> <<>>], [given |-> TRUE, text |-> <<>>],
     [given |-> TRUE, text |-> <<"x">>], [given |-> TRUE, text |-> <<"j">>],
     [given |-> TRUE, text |-> <<" ">>],
     [given |-> TRUE, text |-> [i \in 1..(NameMax + 1) |-> "j"]]}

\* The lines typed in interactive mode: at most MaxLines lines of an
\* answer, followed by what ends the section.
MaxLines == 2

Lines == {<<>>, <<"x">>, <<" ">>}

Answers ==
    {s \in SeqsUpTo(Lines, MaxLines) :
        \A i \in 1..(Len(s) - 1) : ~(s[i] = <<>> /\ s[i + 1] = <<>>)}

Terminated(s) ==
    IF s # <<>> /\ s[Len(s)] = <<>> THEN s \o << <<>> >>
    ELSE s \o << <<>>, <<>> >>

RECURSIVE Script(_, _)
\* What is typed for the sections from k on, answer(k) being the answer
\* to section k.
Script(answer, k) ==
    IF k > Len(Sections) THEN <<>>
    ELSE Terminated(answer[k]) \o Script(answer, k + 1)

NoAnswers == [k \in DOMAIN Sections |-> <<>>]

AllAnswered == [k \in DOMAIN Sections |-> << <<"x">> >>]

\* One section answered in every way, all sections answered, the first
\* two answered, and input that ends before the last section does.
Scripts ==
    {Script([NoAnswers EXCEPT ![k] = s], 1) :
        k \in DOMAIN Sections, s \in Answers}
    \cup {Script(AllAnswered, 1),
          Script([NoAnswers EXCEPT ![1] = << <<"x">>, <<>>, <<" ">> >>,
                                   ![2] = << <<>>, <<"x">> >>], 1),
          SubSeq(Script(AllAnswered, 1), 1, 4), <<>>}

GoodReply ==
    [kind |-> "json",
     value |-> <<Entry("cv", YMap(<<Entry("name", YStr("Jane Doe"))>>))>>]

OwnKey == [provider |-> "openai", api_key |-> "arg-key"]

\* The runs of generate: every script with one name; every name and info
\* with and without --interactive; every credential, reply and output.
GenerateRuns ==
    {[name |-> <<"J">>, info |-> i, interactive |-> TRUE, stdin |-> s,
      output |-> None, style |-> st, key |-> OwnKey, resp |-> GoodReply,
      strict |-> TRUE] :
        s \in Scripts, st \in CliStyles, i \in {Infos_None, Infos_Text}}
    \cup
    {[name |-> n, info |-> i, interactive |-> b,
      stdin |-> IF b THEN Script(AllAnswered, 1) ELSE <<>>,
      output |-> None, style |-> CliStyle_Default, key |-> OwnKey,
      resp |-> GoodReply, strict |-> strict] :
        n \in Names, i \in Infos, b \in BOOLEAN, strict \in BOOLEAN}
    \cup
    {[name |-> <<"J", " ", "D">>, info |-> Infos_None,
      interactive |-> FALSE, stdin |-> <<>>, output |-> o,
      style |-> CliStyle_Default, key |-> k, resp |-> r,
      strict |-> TRUE] :
        o \in CliOutputs, k \in CliCredentials, r \in CliResponses}

SampleOld ==
    <<Entry("cv", YMap(<<Entry("name", YStr("Jane"))>>)),
      Entry("design", DesignBlock("modern"))>>

\* The file systems: INPUT_FILE exists (typer checks exists and readable)
\* and holds a resume, or something else; the --output path may exist.
CliFileSystems ==
    {Str(p) :> YamlFile(SampleOld, TRUE) : p \in YamlInputs}
    \cup {"c.y" :> YamlFile(d, w) : d \in OldDocuments, w \in BOOLEAN}
    \cup {"c.y" :> f : f \in {g \in StoredFiles : g.readable}}
    \cup {"c.y" :> YamlFile(SampleOld, TRUE)
          @@ "o.yaml" :> YamlFile(OldData, w) : w \in BOOLEAN}
    \cup {Str(p) :> f : p \in ResumeInputs, f \in ResumeFiles}
    \cup {"j" :> f : f \in JobFiles}
    \cup {NoFiles, "J_D_CV.yaml" :> YamlFile(OldData, FALSE)}

InitCli ==
    /\ env \in CliEnvironments
    /\ sdk = AllPackages
    /\ pc = "start"
    /\ call = NoCall
    /\ outcome = NoOutcome
    /\ client = NoClient
    /\ requests = <<>>
    /\ files \in CliFileSystems
    /\ doc = <<>>

\* The client the command constructed, if it got that far.
ClientOf(stage, provider, api_key) ==
    IF stage \in {"service", "save", "saved"}
    THEN get_ai_client(provider, api_key, None, env, sdk).value
    ELSE NoClient

\* rendercv ai polish INPUT_FILE [--output PATH] [--in-place]
AiPolish ==
    /\ pc = "start"
    /\ \E input_file \in YamlInputs, output \in CliOutputs,
          in_place \in BOOLEAN, key \in CliCredentials,
          resp \in CliResponses :
          /\ Str(input_file) \in DOMAIN files
          /\ LET r == ai_polish(input_file, output, in_place, key.provider,
                                key.api_key, env, sdk, files, resp)
             IN /\ call' = [op |-> "ai_polish", input_file |-> input_file,
                            output |-> output, in_place |-> in_place,
                            job |-> NoJob, key |-> key,
                            resp |-> resp, stage |-> r.stage,
                            to |-> r.output, old |-> r.old,
                            before |-> files]
                /\ outcome' = r.outcome
                /\ files' = r.files
                /\ doc' = r.data
                /\ requests' = requests \o r.issued
                /\ client' = ClientOf(r.stage, key.provider, key.api_key)
    /\ pc' = "done"
    /\ UNCHANGED <<env, sdk>>

\* rendercv ai tailor INPUT_FILE --job TEXT [--output PATH]
AiTailor ==
    /\ pc = "start"
    /\ \E input_file \in YamlInputs, job \in CliJobs, output \in CliOutputs,
          key \in CliCredentials, resp \in CliResponses :
          /\ Str(input_file) \in DOMAIN files
          /\ LET r == ai_tailor(input_file, job.text, output, key.provider,
                                key.api_key, env, sdk, files, resp,
                                job.strict)
             IN /\ call' = [op |-> "ai_tailor", input_file |-> input_file,
                            output |-> output, in_place |-> FALSE,
                            job |-> job, key |-> key,
                            resp |-> resp, stage |-> r.stage,
                            to |-> r.output, old |-> r.old,
                            before |-> files]
                /\ outcome' = r.outcome
                /\ files' = r.files
                /\ doc' = r.data
                /\ requests' = requests \o r.issued
                /\ client' = ClientOf(r.stage, key.provider, key.api_key)
    /\ pc' = "done"
    /\ UNCHANGED <<env, sdk>>

\* rendercv ai parse INPUT_FILE [--output PATH] [--theme T] [--locale L]
AiParse ==
    /\ pc = "start"
    /\ \E input_file \in ResumeInputs, output \in CliOutputs,
          style \in CliStyles, key \in CliCredentials,
          resp \in CliResponses :
          /\ Str(input_file) \in DOMAIN files
          /\ LET r == ai_parse(input_file, output, style.theme, style.locale,
                               key.provider, key.api_key, env, sdk, files,
                               resp)
             IN /\ call' = [op |-> "ai_parse", input_file |-> input_file,
                            output |-> output, in_place |-> FALSE,
                            job |-> NoJob, key |-> key,
                            resp |-> resp, stage |-> r.stage,
                            to |-> r.output, old |-> r.old,
                            before |-> files, style |-> style]
                /\ outcome' = r.outcome
                /\ files' = r.files
                /\ doc' = r.data
                /\ requests' = requests \o r.issued
                /\ client' = ClientOf(r.stage, key.provider, key.api_key)
    /\ pc' = "done"
    /\ UNCHANGED <<env, sdk>>

\* rendercv ai generate --name NAME [--info TEXT] [--interactive]
\*     [--output PATH] [--theme T] [--locale L]
\* generate reads no input file: its runs are explored in the file systems
\* that hold at most an --info file or an existing output.
AiGenerate ==
    /\ pc = "start"
    /\ DOMAIN files \subseteq {"j", "J_D_CV.yaml"}
    /\ \E run \in GenerateRuns :
          LET r == ai_generate(run.name, run.info, run.interactive,
                               run.output, run.style.theme, run.style.locale,
                               run.key.provider, run.key.api_key, env, sdk,
                               files, run.resp, run.stdin, run.strict)
              user_info == UserInfo(run.name, run.info, run.interactive,
                                    run.stdin, files, run.strict)
          IN /\ call' = [op |-> "ai_generate", name |-> run.name,
                         info |-> run.info, interactive |-> run.interactive,
                         stdin |-> run.stdin, strict |-> run.strict,
                         output |-> run.output, key |-> run.key,
                         resp |-> run.resp, stage |-> r.stage,
                         to |-> r.output, before |-> files,
                         style |-> run.style, user_info |-> user_info,
                         asked |-> IF run.interactive
                                   THEN Interactive(run.stdin, 1, 1, <<>>,
                                                    <<>>).asked
                                   ELSE <<>>]
             /\ outcome' = r.outcome
             /\ files' = r.files
             /\ doc' = r.data
             /\ requests' = requests \o r.issued
             /\ client' = ClientOf(r.stage, run.key.provider,
                                   run.key.api_key)
    /\ pc' = "done"
    /\ UNCHANGED <<env, sdk>>

NextCli ==
    \/ AiParse
    \/ AiPolish
    \/ AiTailor
    \/ AiGenerate

SpecCli == InitCli /\ [][NextCli]_vars

-----------------------------------------------------------------------------
(* Properties of the client factory, checked under SpecFactory.            *)

IsSet(x) == x \notin {None, ""}

Range(seq) == {seq[i] : i \in DOMAIN seq}

FactoryCalled == pc = "done" /\ call.op = "get_ai_client"

ClassOf(provider) ==
    IF provider = "openai" THEN "OpenAIClient" ELSE "AnthropicClient"

InstallMessage(provider) ==
    IF provider = "openai" THEN MsgOpenAIMissing ELSE MsgAnthropicMissing

\* The variable that belongs to a provider.
ExpectedVar(provider) ==
    CASE provider \in {"openai", "OpenAI"} -> "OPENAI_API_KEY"
      [] provider = "anthropic"            -> "ANTHROPIC_API_KEY"
      [] provider = "unknown"              -> "UNKNOWN_API_KEY"

\* The call raised the user error with exactly this message and no client
\* exists.
Raised(message) ==
    /\ outcome.kind = "raise"
    /\ outcome.error = "RenderCVUserError"
    /\ outcome.message = message
    /\ client = NoClient

\* The call settled on this provider with this key: it returned that
\* provider's client configured with the key or, when the provider's SDK is
\* not installed, raised that SDK's install instruction.
Selected(provider, key) ==
    IF sdk[provider]
    THEN /\ outcome.kind = "return"
         /\ outcome.value =
               Client(ClassOf(provider), AIConfig(provider, key, call.model))
         /\ client = outcome.value
    ELSE Raised(InstallMessage(provider))

\* C1: with no provider and no API key given, the environment is probed in
\* the order OPENAI_API_KEY, ANTHROPIC_API_KEY: a non-empty OPENAI_API_KEY
\* selects openai with that key whatever ANTHROPIC_API_KEY holds, anthropic
\* is selected only when OPENAI_API_KEY is unset or empty and
\* ANTHROPIC_API_KEY is non-empty, and with neither the call raises the
\* 'No API key found' error and no client exists.
C1_AutoDetectOrder ==
    (FactoryCalled /\ call.provider = None /\ ~IsSet(call.api_key)) =>
        /\ outcome.reads[1] = "OPENAI_API_KEY"
        /\ IsSet(env["OPENAI_API_KEY"]) =>
              /\ Selected("openai", env["OPENAI_API_KEY"])
              /\ "ANTHROPIC_API_KEY" \notin Range(outcome.reads)
        /\ (~IsSet(env["OPENAI_API_KEY"]) /\ IsSet(env["ANTHROPIC_API_KEY"])) =>
              Selected("anthropic", env["ANTHROPIC_API_KEY"])
        /\ (~IsSet(env["OPENAI_API_KEY"]) /\ ~IsSet(env["ANTHROPIC_API_KEY"])) =>
              Raised(MsgNoApiKey)

\* Both variables are set, nothing is given, and the OpenAI client comes back.
C1_Witness ==
    /\ FactoryCalled /\ call.provider = None /\ call.api_key = None
    /\ IsSet(env["OPENAI_API_KEY"]) /\ IsSet(env["ANTHROPIC_API_KEY"])
    /\ outcome.kind = "return" /\ outcome.value.cls = "OpenAIClient"

\* C2: with a provider in {openai, anthropic} and an API key k both given,
\* in every environment the call settles on exactly that provider with
\* exactly k, and no environment variable is read.
C2_ExplicitWins ==
    (FactoryCalled /\ call.provider \in {"openai", "anthropic"}
        /\ call.api_key # None) =>
        /\ Selected(call.provider, call.api_key)
        /\ outcome.reads = <<>>

\* anthropic and a key are given while both variables are set.
C2_Witness ==
    /\ FactoryCalled /\ call.provider = "anthropic" /\ call.api_key = "arg-key"
    /\ IsSet(env["OPENAI_API_KEY"]) /\ IsSet(env["ANTHROPIC_API_KEY"])
    /\ outcome.kind = "return" /\ outcome.value.cls = "AnthropicClient"

\* C3 as stated: an API key given (not None) without a provider raises the
\* 'you must also specify the provider' error in every environment, and no
\* client exists.
C3_Original ==
    (FactoryCalled /\ call.provider = None /\ call.api_key # None) =>
        Raised(MsgKeyWithoutProvider)

\* C3 amended: a non-empty API key given without a provider raises the
\* 'you must also specify the provider' error in every environment, without
\* reading the environment, and no client exists.
C3_KeyWithoutProvider ==
    (FactoryCalled /\ call.provider = None /\ IsSet(call.api_key)) =>
        /\ Raised(MsgKeyWithoutProvider)
        /\ outcome.reads = <<>>

\* A key is given without a provider while OPENAI_API_KEY is set.
C3_Witness ==
    /\ FactoryCalled /\ call.provider = None /\ call.api_key = "arg-key"
    /\ IsSet(env["OPENAI_API_KEY"])
    /\ outcome.kind = "raise" /\ outcome.message = MsgKeyWithoutProvider

\* C4: with a provider given and no API key, the only variable read is
\* <PROVIDER>_API_KEY with the provider name upper-cased; when it is unset
\* or empty the call raises the error naming exactly that variable and the
\* --api-key option; a client that comes back carries that variable's value,
\* never another provider's.
C4_ProviderVariableOnly ==
    (FactoryCalled /\ call.provider # None /\ call.api_key = None) =>
        LET var == ExpectedVar(call.provider) IN
        /\ outcome.reads = <<var>>
        /\ ~IsSet(env[var]) =>
              Raised("API key not found. Please set " \o var
                     \o " environment variable or use --api-key option.")
        /\ outcome.kind = "return" =>
              outcome.value.config.api_key = env[var]
        /\ (IsSet(env[var]) /\ call.provider \in {"openai", "anthropic"}) =>
              Selected(call.provider, env[var])

\* anthropic is given without a key, ANTHROPIC_API_KEY is not set and
\* OPENAI_API_KEY is: the error names ANTHROPIC_API_KEY.
C4_Witness ==
    /\ FactoryCalled /\ call.provider = "anthropic" /\ call.api_key = None
    /\ IsSet(env["OPENAI_API_KEY"]) /\ ~IsSet(env["ANTHROPIC_API_KEY"])
    /\ outcome.kind = "raise"
    /\ outcome.message = MsgApiKeyNotFound("ANTHROPIC_API_KEY")

\* C5 as stated: a provider name other than 'openai' and 'anthropic' raises
\* the 'Unknown AI provider' error listing the supported providers, and no
\* client is returned.
C5_Original ==
    (FactoryCalled /\ call.provider \in Providers \ {"openai", "anthropic"}) =>
        Raised(MsgUnknownProvider(call.provider))

\* C5 amended: a provider name other than 'openai' and 'anthropic' never
\* yields a client; the call raises the 'Unknown AI provider' error listing
\* the supported providers when an API key is given or <PROVIDER>_API_KEY is
\* non-empty, and otherwise the 'API key not found' error naming
\* <PROVIDER>_API_KEY.
C5_UnknownProvider ==
    (FactoryCalled /\ call.provider \in Providers \ {"openai", "anthropic"}) =>
        LET var == ExpectedVar(call.provider) IN
        IF call.api_key # None \/ IsSet(env[var])
        THEN Raised("Unknown AI provider: " \o call.provider
                    \o ". Supported providers: openai, anthropic")
        ELSE Raised(MsgApiKeyNotFound(var))

\* An unknown provider is given with a key.
C5_Witness ==
    /\ FactoryCalled /\ call.provider = "unknown" /\ call.api_key = "arg-key"
    /\ outcome.kind = "raise"
    /\ outcome.message = MsgUnknownProvider("unknown")

ModelCalled == pc = "done" /\ call.op = "get_model"

\* The default model of a provider, or the configuration error.
DefaultModel(provider) ==
    CASE provider = "openai"    -> Return("gpt-4o", <<>>)
      [] provider = "anthropic" -> Return("claude-sonnet-4-20250514", <<>>)
      [] OTHER -> Raise("RenderCVUserError",
                        "Unknown AI provider: " \o provider, <<>>)

\* C6 as stated: get_model returns the pinned model whenever one is set (is
\* not None), and the provider's default or the 'Unknown AI provider' error
\* when none is.
C6_Original ==
    ModelCalled =>
        IF call.model # None
        THEN outcome = Return(call.model, <<>>)
        ELSE outcome = DefaultModel(call.provider)

\* C6 amended: get_model returns the pinned model whenever a non-empty one
\* is set; when the model is None or the empty string it returns 'gpt-4o'
\* for openai, 'claude-sonnet-4-20250514' for anthropic, and raises the
\* 'Unknown AI provider' error for any other provider.
C6_GetModel ==
    ModelCalled =>
        IF IsSet(call.model)
        THEN outcome = Return(call.model, <<>>)
        ELSE outcome = DefaultModel(call.provider)

\* A model is pinned on an openai configuration and comes back.
C6_Witness ==
    /\ ModelCalled /\ call.provider = "openai" /\ call.model = "gpt-3.5-turbo"
    /\ outcome.kind = "return" /\ outcome.value = "gpt-3.5-turbo"

-----------------------------------------------------------------------------
(* Properties of the service operations, checked under SpecService.        *)

ServiceCalled(ops) == pc = "done" /\ call.op \in ops

WhitespaceOnly(text) == \A i \in DOMAIN text : text[i] \in {" ", "\n"}

\* The operation raised the user error with exactly this message.
Failed(message) ==
    /\ outcome.kind = "raise"
    /\ outcome.error = "RenderCVUserError"
    /\ outcome.message = message

PreconditionMessage(op) ==
    CASE op = "parse_resume"    -> MsgNoText
      [] op = "tailor_resume"   -> MsgEmptyJob
      [] op = "generate_resume" -> MsgEmptyInfo

\* C7: a blank or whitespace-only job description (tailor_resume), user info
\* (generate_resume) or extracted text (parse_resume) raises the operation's
\* own precondition error, and no request has been issued to the provider.
C7_BlankInputNoRequest ==
    (ServiceCalled({"parse_resume", "tailor_resume", "generate_resume"})
        /\ WhitespaceOnly(call.text)) =>
        /\ Failed(PreconditionMessage(call.op))
        /\ requests = <<>>

\* tailor_resume was called with a job description of spaces and newlines.
C7_Witness ==
    /\ ServiceCalled({"tailor_resume"})
    /\ call.text = <<" ", "\n">>
    /\ outcome.kind = "raise" /\ outcome.message = MsgEmptyJob
    /\ requests = <<>>

\* The value generate_json handed to the operation, when the operation got
\* that far and generate_json returned.
Generated == generate_json(client, call.resp)

GotReply == requests # <<>> /\ Generated.kind = "return"

\* A mapping with a top-level 'cv' key.
HasTopLevelCv(v) == v.t = "obj" /\ v.m["cv"] # Absent

FailureMessage(op) ==
    CASE op = "parse_resume"    -> MsgParseFailed
      [] op = "polish_resume"   -> MsgPolishFailed
      [] op = "tailor_resume"   -> MsgTailorFailed
      [] op = "generate_resume" -> MsgGenerateFailed

\* C8: parse_resume, polish_resume and generate_resume return the reply
\* unchanged when it has a top-level 'cv' key and raise the operation's
\* 'AI failed to generate valid ...' error when it has not; in particular a
\* reply with 'cv' only inside a 'resume' wrapper is rejected.
C8_Original ==
    (ServiceCalled({"parse_resume", "polish_resume", "generate_resume"})
        /\ GotReply) =>
        IF HasTopLevelCv(Generated.value)
        THEN outcome = Return(Generated.value, <<>>)
        ELSE Failed(FailureMessage(call.op))

\* The documents tailor_resume is compared on: a bare reply {cv: x} and the
\* same document under a 'resume' wrapper.
BareReply(x) == Obj("cv" :> x)

WrappedReply(x) == Obj("resume" :> BareReply(x))

\* The reply is {cv: x} with any sibling keys.
IsBare(v) == HasTopLevelCv(v)

\* The reply is {resume: {cv: x}} with any sibling keys but 'cv'.
IsWrapped(v) ==
    /\ v.t = "obj" /\ v.m["cv"] = Absent
    /\ v.m["resume"] = BareReply(v.m["resume"].m["cv"])

\* C9: tailor_resume yields the same document for a bare {cv: X} reply and
\* for a {resume: {cv: X}} reply, whatever X is and whatever sibling keys
\* the reply has: a bare reply with siblings yields what the wrapped reply
\* of X yields, and a wrapped reply with siblings yields what the bare reply
\* of X yields.
C9_Original ==
    (ServiceCalled({"tailor_resume"}) /\ GotReply) =>
        LET v == Generated.value IN
        /\ IsBare(v) => outcome = ExtractTailored(WrappedReply(v.m["cv"]))
        /\ (v.t = "obj" /\ v.m["resume"].t = "obj" /\ IsWrapped(v)) =>
              outcome = ExtractTailored(BareReply(v.m["resume"].m["cv"]))

\* C10: whenever one of the four operations returns, the value returned is
\* a mapping with a top-level 'cv' key, whatever JSON value the reply is.
C10_Original ==
    (ServiceCalled({"parse_resume", "polish_resume", "tailor_resume",
                    "generate_resume"})
        /\ outcome.kind = "return") =>
        HasTopLevelCv(outcome.value)

-----------------------------------------------------------------------------
(* C11: every failure of a service operation reaches the caller as a       *)
(* RenderCVUserError carrying a message, the failures of the provider call *)
(* included (malformed JSON, no content, a non-mapping 'resume' entry, an  *)
(* exception of the remote call).  The claim as stated: the code wraps     *)
(* none of these.                                                          *)
C11_Original ==
    (pc = "done" /\ outcome.kind = "raise") =>
        (outcome.error = "RenderCVUserError" /\ outcome.message # None)

-----------------------------------------------------------------------------
(* Claims about generate and generate_json.                                *)

ClientCalled(op) == pc = "done" /\ call.op = op

\* The backend yielded no content: no content at all, or empty content.
NoContent(response) ==
    \/ response.kind = "nocontent"
    \/ response.kind = "content" /\ response.text = <<>>

(* C12: generate returns the empty string, and does not fail, when the     *)
(* backend yields no content, for both clients.  The claim as stated:      *)
(* AnthropicClient.generate indexes the empty content list.                *)
C12_Original ==
    (ClientCalled("generate") /\ NoContent(call.resp)) =>
        outcome = Return(<<>>, <<>>)

\* A body inside ```json ... ``` markers, with optional whitespace before,
\* after and between.
FencedContents(body) ==
    {Wrap(w1, JsonFence, w2, body, w3, Fence, w4) :
        w1 \in Whitespaces, w2 \in Whitespaces, w3 \in Whitespaces,
        w4 \in Whitespaces}

Unwrapped(body) == [kind |-> "content", text |-> body]

(* C13: generate_json on a reply whose body is wrapped in ```json ... ```  *)
(* markers, optionally surrounded by whitespace, gives what it gives on    *)
(* the reply that is the body alone; for a JSON body that is the parsed    *)
(* value.                                                                  *)
C13_FencedSameAsUnwrapped ==
    (ClientCalled("generate_json") /\ call.resp.kind = "content") =>
        \A body \in Bodies :
            call.resp.text \in FencedContents(body) =>
                /\ outcome = generate_json_text(client, Unwrapped(body))
                /\ body \in JsonTexts => outcome.kind = "return"

C13_Witness ==
    /\ ClientCalled("generate_json")
    /\ call.resp.kind = "content"
    /\ call.resp.text =
          Wrap(<<" ">>, JsonFence, <<"\n">>, CvObjectText, <<"\n">>, Fence,
               <<"\n">>)
    /\ outcome = Return(Obj("cv" :> JNum), <<>>)

ServiceOps ==
    {"parse_resume", "polish_resume", "tailor_resume", "generate_resume"}

(* C14: a service operation issues at most one request, a call of generate *)
(* or generate_json issues exactly one, and when generate_json fails the   *)
(* operation raises that failure with no further request issued.           *)
C14_SingleRequestNoRetry ==
    pc = "done" =>
        /\ Len(requests) <= 1
        /\ call.op \in {"generate", "generate_json"} => Len(requests) = 1
        /\ (call.op \in ServiceOps /\ requests # <<>>
            /\ Generated.kind = "raise") => outcome = Generated
        /\ (call.op \in ServiceOps /\ outcome.kind = "return") =>
               Len(requests) = 1

C14_Witness ==
    /\ ServiceCalled({"parse_resume"})
    /\ Len(requests) = 1
    /\ call.resp.kind = "malformed"
    /\ outcome.kind = "raise"
    /\ outcome.error = "JSONDecodeError"

-----------------------------------------------------------------------------
(* Claims about the text extractor, checked under SpecParser.              *)

ExtractCalled == pc = "done" /\ call.op = "extract_resume_text"

\* The call found a file at its path.
ExtractedFile == ExtractCalled /\ call.file_path \in DOMAIN files

\* The extractor the call went into.
Dispatched(extractor) == ExtractedFile /\ outcome.reads = <<extractor>>

\* The failure of an extractor: a RenderCVUserError with this prefix and the
\* underlying exception's text, the exception chained.
Wrapped(prefix, e) ==
    /\ outcome.kind = "raise"
    /\ outcome.error = "RenderCVUserError"
    /\ outcome.message = prefix \o e.text
    /\ outcome.cause = e

(* C15: a missing path raises 'File not found' whatever its extension; an  *)
(* existing one goes by its extension, upper or lower case, to the PDF,    *)
(* DOCX or plain-text extractor, and any other extension raises the        *)
(* unsupported-format error naming the supported formats.                  *)
C15_DispatchByExtension ==
    ExtractCalled =>
        LET path == call.file_path
            ext == Suffix(path)
        IN IF path \notin DOMAIN files
           THEN outcome = Raise("RenderCVUserError",
                                "File not found: " \o path, <<>>)
           ELSE CASE ext \in {".pdf", ".PDF"} ->
                        outcome = extract_text_from_pdf(files[path], sdk)
                  [] ext \in {".docx", ".DocX"} ->
                        outcome = extract_text_from_docx(files[path], sdk)
                  [] ext \in {".txt", ".TXT", ".md", ".rst", ".Rst"} ->
                        outcome = extract_text_from_txt(files[path])
                  [] OTHER ->
                        outcome =
                            Raise("RenderCVUserError",
                                  "Unsupported file format: " \o ext
                                  \o ". Supported formats: PDF, DOCX, TXT, MD",
                                  <<>>)

C15_Witness ==
    /\ Dispatched("extract_text_from_pdf")
    /\ call.file_path = "cv.PDF"
    /\ outcome.kind = "return"

(* C16: plain-text extraction returns the UTF-8 decoding when the bytes    *)
(* are UTF-8, the Latin-1 decoding (every byte its own code point) when    *)
(* they are not, and raises 'Failed to read text file' with the exception  *)
(* chained when the read of either attempt fails.                          *)
C16_TextFallback ==
    Dispatched("extract_text_from_txt") =>
        LET raw == files[call.file_path].raw
            utf8 == Utf8Decode(raw.bytes)
            prefix == "Failed to read text file: "
        IN /\ (raw.io[1] = "ok" /\ utf8.ok) =>
                  outcome = Return(utf8.text, outcome.reads)
           /\ (raw.io[1] = "ok" /\ raw.bytes = <<195, 169>>) =>
                  outcome.value = <<233>>
           /\ (raw.io[1] = "ok" /\ ~utf8.ok /\ raw.io[2] = "ok") =>
                  outcome = Return(raw.bytes, outcome.reads)
           /\ raw.io[1] = "error" => Wrapped(prefix, PermissionError)
           /\ (raw.io[1] = "ok" /\ ~utf8.ok /\ raw.io[2] = "error") =>
                  Wrapped(prefix, PermissionError)

C16_Witness ==
    /\ Dispatched("extract_text_from_txt")
    /\ files[call.file_path].raw = Readable(<<65, 233>>)
    /\ outcome.kind = "return"
    /\ outcome.value = <<65, 233>>

\* The texts of the pages that yield text, in page order.
YieldedTexts(pages) ==
    LET kept == SelectSeq(pages,
                          LAMBDA r : r.kind = "text" /\ Len(r.text) > 0)
    IN [i \in 1..Len(kept) |-> kept[i].text]

(* C17: PDF extraction returns the texts of the pages that yield text, in  *)
(* page order, joined by a blank line (the empty string when no page       *)
(* yields text), and raises 'Failed to extract text from PDF' with the     *)
(* underlying message when the reader or a page fails.                     *)
C17_PdfPages ==
    (Dispatched("extract_text_from_pdf") /\ sdk["pypdf"]) =>
        LET view == files[call.file_path].pdf
            prefix == "Failed to extract text from PDF: "
        IN /\ view.reader = "error" => Wrapped(prefix, PdfReadError)
           /\ (view.reader = "ok"
               /\ \E i \in DOMAIN view.pages : view.pages[i].kind = "raise") =>
                  Wrapped(prefix, PageError)
           /\ (view.reader = "ok"
               /\ \A i \in DOMAIN view.pages : view.pages[i].kind # "raise") =>
                  /\ outcome =
                        Return(Join(YieldedTexts(view.pages), BlankLine),
                               outcome.reads)
                  /\ YieldedTexts(view.pages) = <<>> => outcome.value = <<>>

C17_Witness ==
    /\ Dispatched("extract_text_from_pdf")
    /\ files[call.file_path].pdf.pages =
          <<[kind |-> "text", text |-> <<"a">>],
            [kind |-> "text", text |-> <<"b">>]>>
    /\ outcome.value = <<"a", "\n", "\n", "b">>

\* A text with a character that is not whitespace.
NonBlank(text) == \E i \in DOMAIN text : text[i] \notin {" ", "\n"}

\* All rows of all tables, in order.
RECURSIVE AllRows(_)
AllRows(tables) ==
    IF tables = <<>> THEN <<>> ELSE Head(tables) \o AllRows(Tail(tables))

\* The entry of a row: its non-blank cell texts, without the whitespace
\* around each, joined by ' | '.
EntryOfRow(row) ==
    LET cells == SelectSeq(row, NonBlank) IN
    Join([i \in 1..Len(cells) |-> Strip(cells[i])], <<" ", "|", " ">>)

\* The entries of a document: the non-blank paragraphs, then the rows that
\* have a non-blank cell.
EntriesOf(view) ==
    LET rows == SelectSeq(AllRows(view.tables),
                          LAMBDA row : \E i \in DOMAIN row : NonBlank(row[i]))
    IN SelectSeq(view.paragraphs, NonBlank)
       \o [i \in 1..Len(rows) |-> EntryOfRow(rows[i])]

(* C18: DOCX extraction returns one entry per non-blank paragraph and one  *)
(* per table row with a non-blank cell (the row's non-blank cell texts     *)
(* joined by the '|' separator), rows of blank cells giving no entry, the  *)
(* entries joined by blank lines.                                          *)
C18_DocxEntries ==
    (Dispatched("extract_text_from_docx") /\ sdk["docx"]
     /\ files[call.file_path].docx.open = "ok") =>
        LET view == files[call.file_path].docx IN
        outcome = Return(Join(EntriesOf(view), BlankLine), outcome.reads)

C18_Witness ==
    /\ Dispatched("extract_text_from_docx")
    /\ files[call.file_path].docx.paragraphs = << <<"p">> >>
    /\ files[call.file_path].docx.tables =
          << << <<>>, << <<" ">> >> >>, SampleTable >>
    /\ outcome.value = <<"p", "\n", "\n", "d", " ", "|", " ", "c">>

\* The provider a call of get_ai_client settles on when both credential
\* variables are set: the given one, else openai by auto-detection; none
\* when a key is given without a provider.
SettledProvider ==
    IF call.provider # None THEN call.provider
    ELSE IF Truthy(call.api_key) THEN None
    ELSE "openai"

(* C19: with pypdf or python-docx missing, extraction of a PDF or DOCX     *)
(* raises the install instruction naming the package and never the         *)
(* 'Failed to extract text' error; with the openai or anthropic SDK        *)
(* missing, building the client raises its install instruction, so that no *)
(* client exists whose SDK is missing.                                     *)
C19_InstallInstructions ==
    /\ (Dispatched("extract_text_from_pdf") /\ ~sdk["pypdf"]) =>
          /\ outcome.kind = "raise"
          /\ outcome.error = "RenderCVUserError"
          /\ outcome.message =
                "pypdf package is not installed."
                \o " Install it with: pip install pypdf"
          /\ outcome.cause.type = "ImportError"
    /\ (Dispatched("extract_text_from_docx") /\ ~sdk["docx"]) =>
          /\ outcome.kind = "raise"
          /\ outcome.error = "RenderCVUserError"
          /\ outcome.message =
                "python-docx package is not installed."
                \o " Install it with: pip install python-docx"
          /\ outcome.cause.type = "ImportError"
    /\ (FactoryCalled /\ SettledProvider \in {"openai", "anthropic"}) =>
          IF sdk[SettledProvider]
          THEN outcome.kind = "return" /\ client = outcome.value
          ELSE Raised(InstallMessage(SettledProvider))
    /\ client # NoClient => sdk[client.config.provider]

C19_Witness ==
    /\ Dispatched("extract_text_from_pdf")
    /\ ~sdk["pypdf"]
    /\ files[call.file_path].pdf.reader = "ok"
    /\ outcome.message = MsgPypdfMissing

-----------------------------------------------------------------------------
(* Claims about save_resume_yaml, checked under SpecSave.                  *)

SaveCalled == pc = "done" /\ call.op = "save_resume_yaml"

\* The entries of a document other than those of the given keys, in order.
Without(data, keys) == SelectSeq(data, LAMBDA e : e.key \notin keys)

(* C20: save_resume_yaml writes design = {theme: given} only when the      *)
(* document has no 'design' key and locale = {language: given} only when   *)
(* it has no 'locale' key; a design or locale the document has is written  *)
(* as it is, whatever the arguments; every other key is written unchanged  *)
(* and none is added or removed.                                           *)
C20_DefaultsOnlyWhenAbsent ==
    (SaveCalled /\ outcome.kind = "return") =>
        LET before == call.resume_data
            written == files[call.output_path].yaml.entries
            injected == {"design", "locale"}
        IN /\ Get(written, "design") =
                 Represent(IF Has(before, "design") THEN Get(before, "design")
                           ELSE YMap(<<Entry("theme", YStr(call.theme))>>))
           /\ Get(written, "locale") =
                 Represent(IF Has(before, "locale") THEN Get(before, "locale")
                           ELSE YMap(<<Entry("language", YStr(call.locale))>>))
           /\ Without(written, injected) =
                 Without(Dump(before).entries, injected)
           /\ \A i, j \in DOMAIN written :
                 written[i].key = written[j].key => i = j
           /\ files[call.output_path].yaml = Dump(doc)

C20_Witness ==
    /\ SaveCalled
    /\ outcome.kind = "return"
    /\ call.theme = "classic"
    /\ call.locale = "french"
    /\ Get(call.resume_data, "design") = DesignBlock("modern")
    /\ ~Has(call.resume_data, "locale")
    /\ Has(call.resume_data, "settings")
    /\ Get(files[OutputPath].yaml.entries, "design") =
          Represent(DesignBlock("modern"))
    /\ Get(files[OutputPath].yaml.entries, "locale") =
          Represent(LocaleBlock("french"))

-----------------------------------------------------------------------------
(* Claims about load_resume_yaml, checked under SpecSave.                  *)

\* A load_resume_yaml that followed a save_resume_yaml that returned.
Reloaded == pc = "reloaded" /\ call.after.op = "save_resume_yaml"

\* A load_resume_yaml as the first call.
Loaded == pc = "loaded"

(* C21: save_resume_yaml followed by load_resume_yaml on the same path     *)
(* gives a document whose 'cv' equals the original's, and whose 'design'   *)
(* and 'locale' equal the original's when it had them and are the defaults *)
(* of the given theme and locale when it had not; the loaded document is   *)
(* the saved one, entry for entry.  The save returned and the file it     *)
(* wrote can be opened for reading.                                        *)
C21_RoundTrip ==
    (/\ Reloaded
     /\ files[OutputPath].yaml = Dump(call.saved)
     /\ files[OutputPath].readable) =>
        LET original == call.after.resume_data
            loaded == outcome.value
        IN /\ outcome.kind = "return"
           /\ Get(loaded, "cv") = Get(original, "cv")
           /\ Get(loaded, "design") =
                 IF Has(original, "design") THEN Get(original, "design")
                 ELSE DesignBlock(call.after.theme)
           /\ Get(loaded, "locale") =
                 IF Has(original, "locale") THEN Get(original, "locale")
                 ELSE LocaleBlock(call.after.locale)
           /\ loaded = call.saved

C21_Witness ==
    /\ Reloaded
    /\ outcome.kind = "return"
    /\ Get(call.after.resume_data, "cv") =
          YMap(<<Entry("name", YStr("null")), Entry("phone", YNull)>>)
    /\ Get(call.after.resume_data, "design") = YNull
    /\ ~Has(call.after.resume_data, "locale")
    /\ call.after.locale = "french"
    /\ Get(outcome.value, "locale") = LocaleBlock("french")

\* A call of load_resume_yaml, first or after a save.
LoadCalled == pc \in {"loaded", "reloaded"}

\* The load raised the user error with this message, nothing chained.
LoadRaised(message) ==
    /\ outcome.kind = "raise"
    /\ outcome.error = "RenderCVUserError"
    /\ outcome.message = message
    /\ outcome.cause = None

\* The load raised the 'Failed to load YAML file' error from e.
LoadWrapped(e) ==
    /\ outcome.kind = "raise"
    /\ outcome.error = "RenderCVUserError"
    /\ outcome.message = "Failed to load YAML file: " \o e.text
    /\ outcome.cause = e

(* C22: load_resume_yaml raises 'File not found' for a missing path; for   *)
(* a file whose parsed root is not a mapping (an empty file, a list, a     *)
(* scalar) it raises 'Invalid YAML structure', as it is and not wrapped;   *)
(* any other failure of opening or parsing is raised as 'Failed to load    *)
(* YAML file' with the cause chained; otherwise it returns the root        *)
(* mapping.                                                                *)
C22_LoadOutcomes ==
    LoadCalled =>
        LET p == call.file_path
        IN IF p \notin DOMAIN files
           THEN LoadRaised("File not found: " \o p)
           ELSE LET f == files[p]
                IN CASE f.dir -> LoadWrapped(IsADirectoryError)
                     [] ~f.dir /\ ~f.readable -> LoadWrapped(PermissionError)
                     [] ~f.dir /\ f.readable /\ f.yaml = NotYaml ->
                           LoadWrapped(ScannerError)
                     [] ~f.dir /\ f.readable /\ f.yaml # NotYaml
                           /\ f.yaml.t # "mapping" ->
                           LoadRaised("Invalid YAML structure in " \o p)
                     [] OTHER ->
                           /\ outcome.kind = "return"
                           /\ YMap(outcome.value) = Construct(f.yaml)
                           /\ doc = outcome.value

C22_Witness ==
    /\ Loaded
    /\ OutputPath \in DOMAIN files
    /\ files[OutputPath].yaml = EmptyStream
    /\ ~files[OutputPath].dir
    /\ LoadRaised("Invalid YAML structure in " \o OutputPath)

-----------------------------------------------------------------------------
(* Claims about read_job_description, checked under SpecJob.               *)

JobCalled == pc = "done" /\ call.op = "read_job_description"

\* The source names an existing regular file whose bytes can be read and
\* decoded.
NamesReadableFile(source, fs) ==
    /\ ~NameTooLong(source)
    /\ Str(source) \in DOMAIN fs
    /\ ~fs[Str(source)].dir
    /\ fs[Str(source)].raw.io[1] = "ok"
    /\ Utf8Decode(fs[Str(source)].raw.bytes).ok

(* C24: read_job_description never raises: it returns the content of the   *)
(* file when the source names an existing readable regular file, and the   *)
(* source itself in every other case (a directory, a file that cannot be   *)
(* read, text that is not a usable path).  The claim as stated: for text   *)
(* with a component longer than NAME_MAX, path.exists() raises OSError.    *)
C24_Original ==
    JobCalled =>
        /\ outcome.kind = "return"
        /\ IF NamesReadableFile(call.source, files)
           THEN outcome.value =
                    Chars(Utf8Decode(files[Str(call.source)].raw.bytes).text)
           ELSE outcome.value = call.source

-----------------------------------------------------------------------------
(* Claims about the AI commands, checked under SpecCli.                    *)

CommandCalled(ops) == pc = "done" /\ call.op \in ops

\* The command got through: save_resume_yaml returned.
CommandSaved(ops) == CommandCalled(ops) /\ call.stage = "saved"

\* The document the service returned to the command: the reply, or its
\* 'resume' entry when tailor_resume unwrapped it.
Produced ==
    IF Has(call.resp.value, "cv") THEN call.resp.value
    ELSE Get(call.resp.value, "resume").entries

CarriedKeys == {"design", "locale", "settings"}

(* C23: in polish and tailor, each of 'design', 'locale', 'settings' that  *)
(* the loaded document has and the AI-produced document lacks is saved     *)
(* with the loaded document's value (not the default of save_resume_yaml); *)
(* a key the AI-produced document has is saved with the AI-produced value; *)
(* 'cv' is saved as the AI produced it.                                    *)
C23_CarryOver ==
    CommandSaved({"ai_polish", "ai_tailor"}) =>
        LET saved == files[call.to].yaml.entries
        IN /\ \A k \in CarriedKeys :
                 /\ (Has(call.old, k) /\ ~Has(Produced, k)) =>
                        Get(saved, k) = Represent(Get(call.old, k))
                 /\ Has(Produced, k) =>
                        Get(saved, k) = Represent(Get(Produced, k))
           /\ Get(saved, "cv") = Represent(Get(Produced, "cv"))

C23_Witness ==
    /\ CommandSaved({"ai_tailor"})
    /\ Get(call.old, "design") = YNull
    /\ Get(call.old, "locale") = LocaleBlock("french")
    /\ Has(call.old, "settings")
    /\ ~Has(Produced, "design")
    /\ Get(Produced, "locale") = YNull
    /\ Has(Produced, "settings")
    /\ Get(files[call.to].yaml.entries, "design") = Represent(YNull)
    /\ Get(files[call.to].yaml.entries, "locale") = Represent(YNull)
    /\ Get(files[call.to].yaml.entries, "settings") =
          Represent(YMap(<<Entry("bold", YBool("true"))>>))

AllCommands == {"ai_parse", "ai_polish", "ai_tailor", "ai_generate"}

\* pathlib's stem of the input paths of the model.
ExpectedStem(path) ==
    CASE path = "c.y"        -> "c"
      [] path = "c.t.y"      -> "c.t"
      [] path = ".c"         -> ".c"
      [] path = "c."         -> "c."
      [] path = "c"          -> "c"
      [] path = "d/c.y"      -> "c"
      [] path = "cv.pdf"     -> "cv"
      [] path = "cv.PDF"     -> "cv"
      [] path = "cv.pdf.txt" -> "cv.pdf"
      [] path = "cv.tar.gz"  -> "cv.tar"
      [] path = "cv.txt"     -> "cv"

\* The names of the model with every space replaced by an underscore.
ExpectedName(name) ==
    CASE name = <<"J">>           -> "J"
      [] name = <<"J", " ", "D">> -> "J_D"
      [] name = <<" ", "J", " ">> -> "_J_"
      [] name = <<>>              -> ""

\* Where the claim says the command writes.
ExpectedOutput ==
    IF call.op = "ai_polish" /\ call.in_place THEN Str(call.input_file)
    ELSE IF call.output # None THEN call.output
    ELSE CASE call.op = "ai_parse" ->
                ExpectedStem(Str(call.input_file)) \o "_CV.yaml"
           [] call.op = "ai_polish" ->
                ExpectedStem(Str(call.input_file)) \o "_polished.yaml"
           [] call.op = "ai_tailor" ->
                ExpectedStem(Str(call.input_file)) \o "_tailored.yaml"
           [] call.op = "ai_generate" ->
                ExpectedName(call.name) \o "_CV.yaml"

(* C25: each command writes to the --output path when one is given, and    *)
(* otherwise to <input stem>_CV.yaml (parse), <input stem>_polished.yaml   *)
(* (polish), <input stem>_tailored.yaml (tailor) or <name with underscores *)
(* for spaces>_CV.yaml (generate), a path without directory; polish with   *)
(* --in-place writes to the input file, whatever --output says.  A command *)
(* that saves writes its document there and touches no other path.         *)
C25_OutputPath ==
    CommandCalled(AllCommands) =>
        /\ call.to = ExpectedOutput
        /\ call.stage = "saved" =>
              /\ DOMAIN files = DOMAIN call.before \cup {ExpectedOutput}
              /\ files[ExpectedOutput].yaml = Dump(doc)
              /\ \A p \in DOMAIN call.before \ {ExpectedOutput} :
                    files[p] = call.before[p]

C25_Witness ==
    /\ CommandSaved({"ai_polish"})
    /\ call.in_place
    /\ call.output = "o.yaml"
    /\ call.to = "c.y"
    /\ "o.yaml" \notin DOMAIN files
    /\ files["c.y"].yaml = Dump(doc)
    /\ files["c.y"] # call.before["c.y"]

\* The stages of a command before save_resume_yaml is called.
EarlyStages == {"job", "info", "load", "client", "service"}

(* C27: a command opens its output file only after the service operation   *)
(* has returned a document: a step of a command in which reading the job   *)
(* description or the user information, loading the input, constructing    *)
(* the client or the service operation raises leaves every file as it was, *)
(* the input file of an --in-place polish included; the file system        *)
(* changes only in a step that reaches save_resume_yaml.                   *)
C27_NoWriteBeforeDocument ==
    [][/\ (call'.op \in AllCommands /\ call'.stage \in EarlyStages) =>
              /\ outcome'.kind = "raise"
              /\ files' = files
       /\ files' # files => call'.stage = "saved"]_vars

C27_Witness ==
    /\ CommandCalled({"ai_polish"})
    /\ call.in_place
    /\ call.stage = "service"
    /\ outcome.kind = "raise"
    /\ call.to = "c.y"
    /\ files["c.y"] = call.before["c.y"]
    /\ files = call.before
    /\ client # NoClient

-----------------------------------------------------------------------------
(* Claims about the extraction of tailor_resume, checked under SpecService. *)

\* `"cv" in v` holds.
ContainsCv(v) == SupportsIn(v) /\ In("cv", v)

RECURSIVE CvBelow(_)
\* A 'cv' key somewhere inside the entries of a mapping, below its top
\* level.
CvBelow(v) ==
    /\ v.t = "obj"
    /\ \E k \in Keys :
          /\ v.m[k].t = "obj"
          /\ (v.m[k].m["cv"] # Absent \/ CvBelow(v.m[k]))

(* C26: tailor_resume returns the reply itself when it has a top-level     *)
(* 'cv', whatever its 'resume' entry; it returns reply['resume'] only when *)
(* there is no top-level 'cv' and reply['resume'] contains 'cv'; a reply   *)
(* with 'cv' two or more levels deep or under another wrapper key raises   *)
(* the 'AI failed to generate valid tailored resume' error.  The claim as  *)
(* stated: with a 'resume' entry that is None, the test `"cv" in           *)
(* result["resume"]` raises TypeError before the error is reached.         *)
C26_Original ==
    (ServiceCalled({"tailor_resume"}) /\ GotReply) =>
        LET v == Generated.value
        IN IF ContainsCv(v) THEN outcome = Return(v, <<>>)
           ELSE IF v.t = "obj" /\ ContainsCv(v.m["resume"])
           THEN outcome = Return(v.m["resume"], <<>>)
           ELSE /\ outcome.kind = "raise"
                /\ CvBelow(v) => Failed(MsgTailorFailed)

-----------------------------------------------------------------------------
(* A claim about the credential of the client, checked under SpecFactory.  *)

(* C28: every client get_ai_client returns is configured with a non-empty  *)
(* key, for every provider, api_key (the empty string included) and        *)
(* environment; a key taken from the environment is the value of the       *)
(* variable of the selected provider.  The claim as stated: with a         *)
(* provider given, api_key = "" is passed on to the client as it is.       *)
C28_Original ==
    (pc = "done" /\ call.op = "get_ai_client" /\ outcome.kind = "return") =>
        /\ client.config.api_key # ""
        /\ (call.api_key = None \/ call.provider = None) =>
              client.config.api_key =
                  env[Upper(client.config.provider) \o "_API_KEY"]

-----------------------------------------------------------------------------
(* Claims about ai_generate, checked under SpecCli.                        *)

InteractiveRun ==
    CommandCalled({"ai_generate"}) /\ call.interactive

\* The positions after `from` at which an empty line follows an empty line
\* of the same section.
SecondEmpty(stdin, from) ==
    {i \in DOMAIN stdin : i > from /\ stdin[i] = <<>> /\ stdin[i - 1] = <<>>}

First(S) == CHOOSE i \in S : \A j \in S : i <= j

\* Some line has a character that is not white space.
NonBlankLines(lines) ==
    \E i \in DOMAIN lines : \E j \in DOMAIN lines[i] :
        lines[i][j] \notin {" ", "\n"}

RECURSIVE Gathered(_, _)
\* The text of the sections asked up to the k-th: a header and the stripped
\* answer for each section whose lines are not blank.
Gathered(asked, k) ==
    IF k = 0 THEN <<>>
    ELSE Gathered(asked, k - 1) \o
         (IF NonBlankLines(asked[k].lines)
          THEN <<"\n", Title(asked[k].key) \o ":", "\n">>
               \o Strip(Join(asked[k].lines, <<"\n">>)) \o <<"\n">>
          ELSE <<>>)

(* C29: in interactive mode the sections are asked in the listed order,    *)
(* each once; the loop of a section ends at the first empty line that      *)
(* directly follows an empty line of the same section (the first two lines *)
(* included) and not at a single empty line; the lines read before it are  *)
(* all stored, in order; the section is added to user_info exactly when    *)
(* its joined lines are not blank.  When the input ends inside a section   *)
(* input() raises EOFError and nothing is passed on.                       *)
C29_InteractiveLoop ==
    InteractiveRun =>
        LET stdin == call.stdin
            asked == call.asked
            start == <<"Name: ">> \o call.name \o <<"\n", "\n">>
        IN /\ \A k \in DOMAIN asked :
                 LET from == asked[k].from
                     ends == SecondEmpty(stdin, from)
                 IN /\ k \in DOMAIN Sections
                    /\ asked[k].key = Sections[k]
                    /\ from = IF k = 1 THEN 1 ELSE asked[k - 1].next
                    /\ IF ends = {}
                       THEN /\ k = Len(asked)
                            /\ call.user_info.kind = "raise"
                            /\ call.user_info.error = "EOFError"
                       ELSE /\ asked[k].next = First(ends) + 1
                            /\ asked[k].lines =
                                  SubSeq(stdin, from, First(ends) - 1)
           /\ call.user_info.kind = "return" =>
                 /\ Len(asked) = Len(Sections)
                 /\ call.user_info.value =
                       start \o Gathered(asked, Len(asked))

C29_Witness ==
    /\ InteractiveRun
    /\ call.stage = "saved"
    /\ Len(call.asked) = 12
    /\ call.asked[1].lines = << <<"x">>, <<>>, <<" ">>, <<>> >>
    /\ call.asked[2].lines = << <<>>, <<"x">>, <<>> >>
    /\ call.asked[3].lines = << <<>> >>
    /\ call.user_info.value =
          <<"Name: ", "J", "\n", "\n", "\n", "Headline:", "\n", "x", "\n",
            "\n", "Location:", "\n", "x", "\n">>

GenerateRun == CommandCalled({"ai_generate"})

\* The text --info stands for: the content of the file it names, or itself.
InfoText(info, fs) ==
    IF NamesReadableFile(info, fs)
    THEN Chars(Utf8Decode(fs[Str(info)].raw.bytes).text)
    ELSE info

(* C30: the user_info that ai_generate passes to generate_resume starts    *)
(* with 'Name: <name>' and is never blank, whatever --name, --info and     *)
(* --interactive are, so generate_resume never raises 'User information    *)
(* cannot be empty' under the command; after the name comes one source:    *)
(* the interactive answers if --interactive, else the --info text (the     *)
(* content of the file it names, or the text itself) if there is one, else *)
(* the built-in sample request.                                            *)
C30_UserInfo ==
    GenerateRun =>
        LET start == <<"Name: ">> \o call.name \o <<"\n", "\n">>
            passed == call.user_info
        IN /\ outcome.message # MsgEmptyInfo
           /\ call.stage \in {"service", "save", "saved"} =>
                 passed.kind = "return"
           /\ passed.kind = "return" =>
                 /\ SubSeq(passed.value, 1, Len(start)) = start
                 /\ \E i \in DOMAIN passed.value :
                       passed.value[i] \notin {" ", "\n"}
                 /\ passed.value = start \o
                       (IF call.interactive
                        THEN Gathered(call.asked, Len(call.asked))
                        ELSE IF call.info.given /\ call.info.text # <<>>
                        THEN InfoText(call.info.text, call.before)
                        ELSE SampleRequest)

C30_Witness ==
    /\ GenerateRun
    /\ call.stage = "saved"
    /\ ~call.interactive
    /\ call.name = <<>>
    /\ call.info = [given |-> TRUE, text |-> <<"j">>]
    /\ "j" \in DOMAIN call.before
    /\ call.user_info.value = <<"Name: ", "\n", "\n", " ">>

=============================================================================
